---- MODULE Spec2Model ----
(***************************************************************************)
(* A model of the SVN synchronisation and change-aggregation engine of     *)
(* BuildFlow (src/modules/vcs/svn_ops.py).                                 *)
(*                                                                         *)
(* The subordinate `svn` processes are the environment: every process run  *)
(* is a nondeterministic choice of (exit code, stdout, stderr) drawn from  *)
(* small sets.  Each component of the engine has its own specification     *)
(* (SvnSpec, ExtSpec, CleanSpec, HandleSpec, WorkSpec, SparseSpec,         *)
(* PathsSpec, CheckoutSpec, DiffSpec, ...) over the same variables; a      *)
(* specification leaves the variables of the other components at their     *)
(* initial values.                                                         *)
(***************************************************************************)
EXTENDS Integers, Sequences, FiniteSets, Bags, TLC

VARIABLES
    call,               \* the last _svn or run_cmd call: its inputs, the processes it ran, its result
    externals,          \* environment: physical directory -> locals parsed from its propget output
    ext,                \* the last get_all_externals call: root, result, scans, visited
    pc,                 \* position of the running handle operation
    op,                 \* the running / last handle operation: its name and arguments
    stack,              \* ensure_clean_workspace call stack: frames [path, caller, entered, todo]
    cleaned,            \* paths ensure_clean_workspace was entered for, in order, in this operation
    lastClean,          \* the processes and removals of the frame that has just cleaned its path
    wcRev,              \* environment: revision of the main working copy
    wcUrl,              \* environment: URL of the main working copy
    before_update_rev,  \* SvnOps.before_update_rev
    after_update_rev,   \* SvnOps.after_update_rev
    events,             \* what the running / last handle operation did, in order
    ret,                \* outcome of the last handle operation
    profile,            \* ensure_sparse_workspace: the sparse profile given
    wcs,                \* environment: project paths that hold a .svn directory
    sp,                 \* ensure_sparse_workspace: position and the _svn calls made
    diff,               \* the last get_diff call: out, max_lines, result
    revlist,            \* the last get_revision_list call: arguments, history, result
    up,                 \* update_paths_to_revision: position, rules, the _svn calls made
    cko,                \* the last checkout call: arguments, what it saw, what it ran
    git                 \* the last git update_repo call: arguments, commands run

vars == <<call, externals, ext, pc, op, stack, cleaned, lastClean, wcRev, wcUrl,
          before_update_rev, after_update_rev, events, ret, profile, wcs, sp, diff,
          revlist, up, cko, git>>

svnVars    == <<call>>
extVars    == <<ext>>
handleVars == <<pc, op, stack, cleaned, lastClean, wcRev, wcUrl, before_update_rev,
                after_update_rev, events, ret>>
sparseVars == <<profile, wcs, sp>>
diffVars   == <<diff>>
logVars    == <<revlist>>
pathVars   == <<up, cko>>
gitVars    == <<git>>

\* Python's None, for the Optional[str] fields.
None == "<None>"

\* How an operation ended: not yet, by returning (a value), or by raising.
NoRet    == [status |-> "running"]
Returned == [status |-> "returned"]
Raised(msg) == [status |-> "raised", exception |-> "VCSException", msg |-> msg]

(***************************************************************************)
(* Sequences                                                               *)
(***************************************************************************)
\* The text made of a sequence of pieces of text (or of characters).
RECURSIVE Str(_)
Str(cs) == IF cs = <<>> THEN "" ELSE Head(cs) \o Str(Tail(cs))

RECURSIVE Flatten(_)
Flatten(ss) == IF ss = <<>> THEN <<>> ELSE Head(ss) \o Flatten(Tail(ss))

(***************************************************************************)
(* The environment's answer to one process run                             *)
(***************************************************************************)
\* stderr is a sequence of message fragments; `sig in err` is fragment membership.
Contains(sig, err) == \E i \in DOMAIN err : err[i] = sig

StderrSamples ==
    { <<>>,
      <<"E155004">>,
      <<"is locked">>,
      <<"run 'svn cleanup'">>,
      <<"E170013">>,
      <<"E170013", "is locked">> }

Procs == [code : {0, 1}, out : {"", "o"}, err : StderrSamples]

Ok(out) == [code |-> 0, out |-> out, err |-> <<>>]

(***************************************************************************)
(* run_cmd: one subordinate process per call                               *)
(***************************************************************************)
Exec(argv, cwd) == [argv |-> argv, cwd |-> cwd]

\* The VCSException of a strict run_cmd: its message is made of the command,
\* the exit code, stdout and stderr.
cmd_error(args, proc) ==
    [exception |-> "VCSException", cmd |-> args, code |-> proc.code,
     out |-> proc.out, err |-> proc.err]

NoError == [exception |-> None]

run_cmd_raises_unchecked(args, cwd, check, proc) ==
    [ execs  |-> <<Exec(args, cwd)>>,
      code   |-> proc.code,
      out    |-> proc.out,
      err    |-> proc.err,
      raised |-> proc.code # 0,
      error  |-> IF proc.code # 0 THEN cmd_error(args, proc) ELSE NoError ]

run_cmd(args, cwd, check, proc) ==
    [ execs  |-> <<Exec(args, cwd)>>,
      code   |-> proc.code,
      out    |-> proc.out,
      err    |-> proc.err,
      raised |-> check /\ proc.code # 0,
      error  |-> IF check /\ proc.code # 0 THEN cmd_error(args, proc) ELSE NoError ]

(***************************************************************************)
(* SvnOps.cleanup: its return value is discarded, failures are not looked  *)
(* at; what remains is the processes it runs.                              *)
(***************************************************************************)
cleanup(repo_path, aggressive) ==
    <<Exec(<<"svn", "cleanup">>, repo_path)>>
    \o (IF aggressive
          THEN <<Exec(<<"svn", "cleanup", "--remove-unversioned", "--remove-ignored">>,
                      repo_path)>>
          ELSE <<>>)

(***************************************************************************)
(* SvnOps._svn: run, and on a lock failure clean up and run again          *)
(***************************************************************************)
\* The exception _svn raises for a strict call: one class, its message made
\* of the command and of the exit code, stdout and stderr of the last run.
svn_error(cmd, last) ==
    [exception |-> "VCSException", cmd |-> cmd, code |-> last.code,
     out |-> last.out, err |-> last.err]

locked(err) ==
    \/ Contains("is locked", err)
    \/ Contains("E155004", err)
    \/ Contains("run 'svn cleanup'", err)

_svn_retry_any_failure(repo_path, args, check, first, second) ==
    LET cmd   == <<"svn">> \o args
        retry == first.code # 0
        last  == IF retry THEN second ELSE first
    IN  [ execs  |-> IF retry
                       THEN <<Exec(cmd, repo_path)>> \o cleanup(repo_path, FALSE)
                            \o <<Exec(cmd, repo_path)>>
                       ELSE <<Exec(cmd, repo_path)>>,
          code   |-> last.code,
          out    |-> last.out,
          err    |-> last.err,
          raised |-> check /\ last.code # 0,
          error  |-> IF check /\ last.code # 0 THEN svn_error(cmd, last) ELSE NoError ]

_svn_raises_on_first_failure(repo_path, args, check, first, second) ==
    LET cmd   == <<"svn">> \o args
        r1    == run_cmd(cmd, repo_path, FALSE, first)
        retry == r1.code # 0 /\ locked(r1.err)
        r2    == run_cmd(cmd, repo_path, FALSE, second)
        last  == IF retry THEN r2 ELSE r1
    IN  [ execs  |-> IF retry
                       THEN r1.execs \o cleanup(repo_path, FALSE) \o r2.execs
                       ELSE r1.execs,
          code   |-> last.code,
          out    |-> last.out,
          err    |-> last.err,
          raised |-> check /\ r1.code # 0,
          error  |-> IF check /\ r1.code # 0 THEN svn_error(cmd, r1) ELSE NoError ]

_svn_retry_on_signature_alone(repo_path, args, check, first, second) ==
    LET cmd   == <<"svn">> \o args
        r1    == run_cmd(cmd, repo_path, FALSE, first)
        retry == locked(r1.err)
        r2    == run_cmd(cmd, repo_path, FALSE, second)
        last  == IF retry THEN r2 ELSE r1
    IN  [ execs  |-> IF retry
                       THEN r1.execs \o cleanup(repo_path, FALSE) \o r2.execs
                       ELSE r1.execs,
          code   |-> last.code,
          out    |-> last.out,
          err    |-> last.err,
          raised |-> check /\ last.code # 0,
          error  |-> IF check /\ last.code # 0 THEN svn_error(cmd, last) ELSE NoError ]

_svn(repo_path, args, check, first, second) ==
    LET cmd   == <<"svn">> \o args
        r1    == run_cmd(cmd, repo_path, FALSE, first)
        retry == r1.code # 0 /\ locked(r1.err)
        r2    == run_cmd(cmd, repo_path, FALSE, second)
        last  == IF retry THEN r2 ELSE r1
    IN  [ execs  |-> IF retry
                       THEN r1.execs \o cleanup(repo_path, FALSE) \o r2.execs
                       ELSE r1.execs,
          code   |-> last.code,
          out    |-> last.out,
          err    |-> last.err,
          raised |-> check /\ last.code # 0,
          error  |-> IF check /\ last.code # 0 THEN svn_error(cmd, last) ELSE NoError ]

(***************************************************************************)
(* Paths.  A path string is the sequence of its segments below the file    *)
(* system root; "." and ".." are segments like any other until the file    *)
(* system resolves them.                                                   *)
(***************************************************************************)
\* Longest path (in segments) the file system accepts; os.path.isdir answers
\* False for anything longer (stat fails with ENAMETOOLONG).
MaxPathLen == 5

\* os.path.join(repo_path, local), for the relative locals propget prints.
join(repo_path, local) == repo_path \o local

\* The directories that exist: the file system root, the main working copy A,
\* and two nested working copies.
Root   == <<"A">>
WCDirs == { <<"A">>, <<"A", "B">>, <<"A", "B", "C">> }
Dirs   == WCDirs \cup { <<>> }

\* The directory a path string denotes, as the file system resolves it segment
\* by segment; Missing when a segment does not exist.
Missing == <<"<missing>">>

RECURSIVE realpath(_)
realpath(p) ==
    IF p = <<>> THEN <<>>
    ELSE LET init == realpath(SubSeq(p, 1, Len(p) - 1))
             seg  == p[Len(p)]
             here == IF seg = "." THEN init
                     ELSE IF seg = ".."
                            THEN (IF init = <<>> THEN <<>>
                                  ELSE SubSeq(init, 1, Len(init) - 1))
                            ELSE Append(init, seg)
         IN  IF init = Missing \/ here \notin Dirs THEN Missing ELSE here

isdir(p) == Len(p) <= MaxPathLen /\ realpath(p) # Missing

\* What a line of propget output can name before its " - ".
Locals == { <<"B">>, <<"C">>, <<"B", "C">>, <<"..">>, <<".">> }

LocalSeqs1 == { <<>> } \cup { <<l>> : l \in Locals }
LocalSeqs2 == LocalSeqs1 \cup { <<l, m>> : l \in Locals, m \in Locals }

\* Outside a working copy propget fails and prints nothing.
WithRoot(f) == [d \in Dirs |-> IF d \in WCDirs THEN f[d] ELSE <<>>]

(***************************************************************************)
(* SvnOps.get_externals / get_all_externals                                *)
(***************************************************************************)
\* The property query of get_externals.
get_externals_args == <<"propget", "svn:externals", "-R">>

\* One propget in `repo_path`; each output line "local - definition" gives
\* join(repo_path, local).  A failed propget has no output lines.
get_externals(repo_path) ==
    LET locals == externals[realpath(repo_path)]
    IN  [i \in DOMAIN locals |-> join(repo_path, locals[i])]

RECURSIVE scan(_, _), scan_each(_, _)
scan(path, st) ==
    IF path \in st.visited THEN st
    ELSE scan_each(get_externals(path),
                   [st EXCEPT !.visited = @ \cup {path},
                              !.scans   = Append(@, path)])

scan_each(ex, st) ==
    IF ex = <<>> THEN st
    ELSE LET e == Head(ex)
         IN  scan_each(Tail(ex),
                       IF isdir(e)
                         THEN scan(e, [st EXCEPT !.result = Append(@, e)])
                         ELSE st)

\* scans: the paths whose externals were read, in order (one propget each).
get_all_externals(repo_path) ==
    scan(repo_path, [visited |-> {}, result |-> <<>>, scans |-> <<>>])

(***************************************************************************)
(* The state before any operation                                          *)
(***************************************************************************)
NoCall == [fn |-> None, args |-> <<>>, check |-> FALSE, first |-> Ok(""), second |-> Ok(""),
           clean |-> Ok(""),
           execs |-> <<>>, code |-> 0, out |-> "", err |-> <<>>, raised |-> FALSE,
           error |-> NoError]

NoExt == [root |-> <<>>, visited |-> {}, result |-> <<>>, scans |-> <<>>, execs |-> <<>>,
          done |-> FALSE]

NoProfile == [valid |-> FALSE, projects |-> <<>>]

NoSparse ==
    [pc |-> "new", rest |-> <<>>, todo |-> <<>>, calls |-> <<>>, was_wc |-> <<>>,
     done |-> 0, ret |-> NoRet]

NoDiff == [called |-> FALSE]

NoRevList == [called |-> FALSE]

NoGit == [called |-> FALSE]

NoJson == [readable |-> FALSE, is |-> None, paths |-> <<>>]

NoPaths ==
    [pc |-> "new", via |-> None, json |-> NoJson, rules |-> <<>>, rest |-> <<>>,
     calls |-> <<>>, made |-> {}, done |-> 0, ret |-> NoRet]

NoCheckout == [n |-> 0]

\* The parts of the initial state every specification shares.
InitIdle ==
    /\ call = NoCall
    /\ ext = NoExt
    /\ pc = "idle"
    /\ op = [name |-> None]
    /\ stack = <<>>
    /\ cleaned = <<>>
    /\ lastClean = <<>>
    /\ wcRev = "5"
    /\ wcUrl = "svn://u1"
    /\ events = <<>>
    /\ ret = NoRet
    /\ profile = NoProfile
    /\ sp = NoSparse
    /\ diff = NoDiff
    /\ revlist = NoRevList
    /\ up = NoPaths
    /\ cko = NoCheckout
    /\ git = NoGit

\* A handle as __init__ leaves it.
InitRest ==
    /\ InitIdle
    /\ before_update_rev = None
    /\ after_update_rev = None

NoExternals == [d \in Dirs |-> <<>>]

(***************************************************************************)
(* What the environment answers to the two runs an _svn call can make      *)
(***************************************************************************)
Fail(err) == [code |-> 1, out |-> "", err |-> err]

\* succeeds / fails without a lock / locked then succeeds / locked twice
SvnRuns ==
    { [first |-> Ok(""),               second |-> Ok("")],
      [first |-> Fail(<<"E170013">>),  second |-> Ok("")],
      [first |-> Fail(<<"E155004">>),  second |-> Ok("")],
      [first |-> Fail(<<"is locked">>), second |-> Fail(<<"is locked">>)] }

(***************************************************************************)
(* SvnOps.revert_local_changes                                             *)
(***************************************************************************)
\* A line of `svn status --no-ignore`: its first column, the path from column
\* 9 on (stripped; empty for a short line), and what that path is on disk.
StatusLine(st, path, kind) == [status |-> st, path |-> path, kind |-> kind]

StatusOuts ==
    { <<>>,
      <<StatusLine("M", "src.c", "file")>>,
      <<StatusLine("?", "tmp", "dir"), StatusLine("?", "new.txt", "file")>>,
      <<StatusLine("I", "obj", "dir"), StatusLine("?", "", "dir"),
        StatusLine("?", "gone", "absent")>> }

\* The removals the loop over the status lines performs; a removal that fails
\* is swallowed (ignore_errors / except OSError).
RECURSIVE remove_unversioned(_, _)
remove_unversioned(repo_path, lines) ==
    IF lines = <<>> THEN <<>>
    ELSE LET line == Head(lines)
             rest == remove_unversioned(repo_path, Tail(lines))
             full == join(repo_path, <<line.path>>)
         IN  IF line.status # "?" \/ line.path = "" THEN rest
             ELSE IF line.kind = "dir" THEN <<[call |-> "shutil.rmtree", path |-> full]>> \o rest
             ELSE IF line.kind = "file" THEN <<[call |-> "os.remove", path |-> full]>> \o rest
             ELSE rest

\* What a frame does, in order: the processes it runs and the entries it
\* removes.
ExecSteps(execs) ==
    [i \in DOMAIN execs |-> [step |-> "exec", what |-> execs[i].argv, at |-> execs[i].cwd]]

RemoveSteps(removed) ==
    [i \in DOMAIN removed |-> [step |-> "remove", what |-> <<removed[i].call>>,
                               at |-> removed[i].path]]

\* revert (failure ignored), status (failure ignored: whatever it printed is
\* parsed), removals.  lines: what a successful status prints.
revert_local_changes(repo_path, revertRun, statusRun, lines) ==
    LET rv  == _svn(repo_path, <<"revert", "-R", ".">>, FALSE, revertRun.first, revertRun.second)
        st  == _svn(repo_path, <<"status", "--no-ignore">>, FALSE,
                    statusRun.first, statusRun.second)
        out == IF st.code = 0 THEN lines ELSE <<>>
    IN  [ execs   |-> rv.execs \o st.execs,
          failed  |-> rv.code # 0 \/ st.code # 0,
          removed |-> remove_unversioned(repo_path, out),
          trace   |-> ExecSteps(rv.execs) \o ExecSteps(st.execs)
                      \o RemoveSteps(remove_unversioned(repo_path, out)) ]

(***************************************************************************)
(* SvnOps.ensure_clean_workspace / clean_externals                         *)
(*                                                                         *)
(* ensure_clean_workspace is recursive through clean_externals; `stack`    *)
(* is its call stack.  A frame is entered by running revert_local_changes  *)
(* and cleanup on its path and computing get_all_externals from it; the    *)
(* frame then calls ensure_clean_workspace on each of those in turn.       *)
(***************************************************************************)
\* The frame of a call of ensure_clean_workspace that has not run yet.
ensure_clean_frame(path, caller) ==
    [path |-> path, caller |-> caller, entered |-> FALSE, todo |-> <<>>]

\* The processes and removals of one frame before it cascades:
\* revert_local_changes(), then cleanup(aggressive=False).
ensure_clean_steps_cleanup_first(path, revertRun, statusRun, lines) ==
    LET rl == revert_local_changes(path, revertRun, statusRun, lines)
    IN  [path |-> path, execs |-> cleanup(path, FALSE) \o rl.execs, failed |-> rl.failed,
         removed |-> rl.removed,
         trace |-> ExecSteps(cleanup(path, FALSE)) \o rl.trace]

ensure_clean_steps(path, revertRun, statusRun, lines) ==
    LET rl == revert_local_changes(path, revertRun, statusRun, lines)
    IN  [path |-> path, execs |-> rl.execs \o cleanup(path, FALSE), failed |-> rl.failed,
         removed |-> rl.removed,
         trace |-> rl.trace \o ExecSteps(cleanup(path, FALSE))]

\* What the environment answers to the revert and the status of one frame; a
\* status that fails prints no lines.
CleanAnswers ==
    { a \in [revert : SvnRuns, status : SvnRuns, lines : StatusOuts] :
        \/ a.lines = <<>>
        \/ a.status.first.code = 0
        \/ (locked(a.status.first.err) /\ a.status.second.code = 0) }

Top == stack[Len(stack)]

\* The innermost ensure_clean_workspace runs revert_local_changes and cleanup
\* on its path, and clean_externals computes get_all_externals from it.
RevertAndCleanup ==
    /\ pc = "clean"
    /\ stack # <<>>
    /\ ~Top.entered
    /\ \E a \in CleanAnswers :
          lastClean' = ensure_clean_steps(Top.path, a.revert, a.status, a.lines)
    /\ cleaned' = Append(cleaned, Top.path)
    /\ stack' = [stack EXCEPT ![Len(stack)].entered = TRUE,
                              ![Len(stack)].todo = get_all_externals(Top.path).result]
    /\ UNCHANGED <<pc, op, wcRev, wcUrl, before_update_rev, after_update_rev, events, ret>>
    /\ UNCHANGED <<externals, svnVars, extVars, sparseVars, diffVars, logVars, pathVars, gitVars>>

\* clean_externals: the next external of the innermost frame, on which
\* ensure_clean_workspace is called if it is a directory.
CleanExternal ==
    /\ pc = "clean"
    /\ stack # <<>>
    /\ Top.entered
    /\ Top.todo # <<>>
    /\ LET e    == Head(Top.todo)
           rest == [stack EXCEPT ![Len(stack)].todo = Tail(@)]
       IN  IF isdir(e)
             THEN stack' = Append(rest, ensure_clean_frame(e, "clean_externals"))
             ELSE stack' = rest
    /\ lastClean' = <<>>
    /\ UNCHANGED <<pc, op, cleaned, wcRev, wcUrl, before_update_rev, after_update_rev, events, ret>>
    /\ UNCHANGED <<externals, svnVars, extVars, sparseVars, diffVars, logVars, pathVars, gitVars>>

\* The innermost ensure_clean_workspace has no external left and returns.
CleanReturn ==
    /\ pc = "clean"
    /\ stack # <<>>
    /\ Top.entered
    /\ Top.todo = <<>>
    /\ stack' = SubSeq(stack, 1, Len(stack) - 1)
    /\ lastClean' = <<>>
    /\ IF Len(stack) > 1
         THEN UNCHANGED <<pc, ret>>
         ELSE IF Top.caller = "update_to"
                THEN pc' = "update" /\ UNCHANGED ret
                ELSE IF Top.caller = "switch_to"
                  THEN pc' = "switch" /\ UNCHANGED ret
                  ELSE pc' = "idle" /\ ret' = Returned
    /\ UNCHANGED <<op, cleaned, wcRev, wcUrl, before_update_rev, after_update_rev, events>>
    /\ UNCHANGED <<externals, svnVars, extVars, sparseVars, diffVars, logVars, pathVars, gitVars>>

\* A caller invokes ensure_clean_workspace() on the main working copy.
EnsureCleanWorkspace ==
    /\ pc = "idle"
    /\ op.name = None
    /\ op' = [name |-> "ensure_clean_workspace"]
    /\ pc' = "clean"
    /\ stack' = <<ensure_clean_frame(Root, "caller")>>
    /\ cleaned' = <<>>
    /\ lastClean' = <<>>
    /\ events' = <<>>
    /\ ret' = NoRet
    /\ UNCHANGED <<wcRev, wcUrl, before_update_rev, after_update_rev>>
    /\ UNCHANGED <<externals, svnVars, extVars, sparseVars, diffVars, logVars, pathVars, gitVars>>

CleanInit ==
    /\ InitRest
    /\ wcs = {}
    /\ \E f \in [WCDirs -> LocalSeqs1] : externals = WithRoot(f)

CleanNext == EnsureCleanWorkspace \/ RevertAndCleanup \/ CleanExternal \/ CleanReturn

CleanSpec == CleanInit /\ [][CleanNext]_vars

(***************************************************************************)
(* Revisions                                                               *)
(***************************************************************************)
\* The URLs `svn info` prints.
Urls == { "svn://u1", "svn://u2" }

\* The revision identifiers `svn info` / `svn log` print.
Revs == { "5", "6", "7" }

\* Python's int() on the identifiers in use; anything else is a ValueError.
IntOf == ("0" :> 0 @@ "5" :> 5 @@ "6" :> 6 @@ "7" :> 7)

\* The <date> svn log prints for a revision.
DateOf == ("5" :> "T5" @@ "6" :> "T6" @@ "7" :> "T7")

SvnFailed == Raised("svn command failed")

\* All revisions of the repository, oldest first.
RevOrder == <<"5", "6", "7">>

RECURSIVE Reverse(_)
Reverse(q) == IF q = <<>> THEN <<>> ELSE Append(Reverse(Tail(q)), Head(q))

\* What `svn log -r a:b` lists on a path whose history (the revisions that
\* changed it) is `history`: every such revision from a to b, both ends
\* included, in the direction from a to b.
log_between(history, a, b) ==
    LET lo  == IF IntOf[a] <= IntOf[b] THEN IntOf[a] ELSE IntOf[b]
        hi  == IF IntOf[a] <= IntOf[b] THEN IntOf[b] ELSE IntOf[a]
        asc == SelectSeq(RevOrder, LAMBDA r : r \in history /\ lo <= IntOf[r] /\ IntOf[r] <= hi)
    IN  IF IntOf[a] <= IntOf[b] THEN asc ELSE Reverse(asc)

\* The revision svn resolves {date} to: the youngest one committed at or
\* before the date; the dates in use are commit dates.
rev_at(date) == CHOOSE r \in Revs : DateOf[r] = date

\* What svn lists for the text after `-r`: a:b, a, {d1}:{d2} or {d}.
svn_log(history, range) ==
    IF range[1] = "{"
      THEN IF Len(range) = 5
             THEN log_between(history, rev_at(range[2]), rev_at(range[4]))
             ELSE log_between(history, rev_at(range[2]), rev_at(range[2]))
      ELSE IF Len(range) = 3
             THEN log_between(history, range[1], range[3])
             ELSE log_between(history, range[1], range[1])

OkRun   == [first |-> Ok(""), second |-> Ok("")]
FailRun == [first |-> Fail(<<"E170013">>), second |-> Ok("")]

\* An event of a handle operation: a process run, or a write of a field.
ExecEvents(execs) ==
    [i \in DOMAIN execs |-> [ev |-> "exec", argv |-> execs[i].argv, cwd |-> execs[i].cwd]]

WriteEvent(field, value) == [ev |-> "write", field |-> field, value |-> value]

CallEvent(name) == [ev |-> "call", name |-> name]

(***************************************************************************)
(* SvnOps.get_current_revision / get_current_url / get_rev_time            *)
(***************************************************************************)
\* rev: what `svn info` prints when it succeeds.
get_current_revision(repo_path, run, rev) ==
    LET r == _svn(repo_path, <<"info", "--show-item", "revision">>, TRUE,
                  run.first, run.second)
    IN  [execs |-> r.execs, raised |-> r.raised, value |-> rev]

get_current_url(repo_path, run, url) ==
    LET r == _svn(repo_path, <<"info", "--show-item", "url">>, TRUE,
                  run.first, run.second)
    IN  [execs |-> r.execs, raised |-> r.raised, value |-> url]

\* has_entry: whether the log svn prints holds a <logentry> for the revision.
get_rev_time(repo_path, revision, run, has_entry) ==
    LET r == _svn(repo_path, <<"log", "--xml", "-r", revision>>, TRUE,
                  run.first, run.second)
    IN  [execs  |-> r.execs,
         raised |-> r.raised \/ ~has_entry \/ revision \notin DOMAIN DateOf,
         value  |-> IF revision \in DOMAIN DateOf THEN DateOf[revision] ELSE ""]

(***************************************************************************)
(* SvnOps.update_to                                                        *)
(***************************************************************************)
Targets == { None, "HEAD", "6" }

update_args(target) ==
    IF target = None \/ target = "HEAD" THEN <<"update">> ELSE <<"update", "-r", target>>

\* The revisions an update to `target` can leave the working copy at.
UpdatedRevs(target) ==
    IF target = None \/ target = "HEAD"
      THEN {r \in Revs : IntOf[r] >= IntOf[wcRev]}
      ELSE {target}

\* update_to up to its call of ensure_clean_workspace.
UpdateTo_before_not_recorded ==
    /\ pc = "idle"
    /\ \E target \in Targets, run \in SvnRuns :
          LET cur == get_current_revision(Root, run, wcRev)
          IN  /\ op' = [name |-> "update_to", target |-> target]
              /\ IF cur.raised
                   THEN /\ events' = ExecEvents(cur.execs)
                        /\ ret' = SvnFailed
                        /\ UNCHANGED <<pc, before_update_rev>>
                        /\ stack' = <<>> /\ cleaned' = <<>> /\ lastClean' = <<>>
                   ELSE /\ UNCHANGED before_update_rev
                        /\ events' = ExecEvents(cur.execs)
                                     \o <<CallEvent("ensure_clean_workspace")>>
                        /\ ret' = NoRet
                        /\ pc' = "clean"
                        /\ stack' = <<ensure_clean_frame(Root, "update_to")>>
                        /\ cleaned' = <<>>
                        /\ lastClean' = <<>>
    /\ UNCHANGED <<wcRev, wcUrl, after_update_rev>>
    /\ UNCHANGED <<externals, svnVars, extVars, sparseVars, diffVars, logVars, pathVars, gitVars>>

UpdateTo_before_recorded_on_failure ==
    /\ pc = "idle"
    /\ \E target \in Targets, run \in SvnRuns :
          LET cur == get_current_revision(Root, run, wcRev)
          IN  /\ op' = [name |-> "update_to", target |-> target]
              /\ before_update_rev' = cur.value
              /\ IF cur.raised
                   THEN /\ events' = ExecEvents(cur.execs)
                        /\ ret' = SvnFailed
                        /\ UNCHANGED pc
                        /\ stack' = <<>> /\ cleaned' = <<>> /\ lastClean' = <<>>
                   ELSE /\ events' = ExecEvents(cur.execs)
                                     \o <<WriteEvent("before_update_rev", cur.value),
                                          CallEvent("ensure_clean_workspace")>>
                        /\ ret' = NoRet
                        /\ pc' = "clean"
                        /\ stack' = <<ensure_clean_frame(Root, "update_to")>>
                        /\ cleaned' = <<>>
                        /\ lastClean' = <<>>
    /\ UNCHANGED <<wcRev, wcUrl, after_update_rev>>
    /\ UNCHANGED <<externals, svnVars, extVars, sparseVars, diffVars, logVars, pathVars, gitVars>>

UpdateTo ==
    /\ pc = "idle"
    /\ \E target \in Targets, run \in SvnRuns :
          LET cur == get_current_revision(Root, run, wcRev)
          IN  /\ op' = [name |-> "update_to", target |-> target]
              /\ IF cur.raised
                   THEN /\ events' = ExecEvents(cur.execs)
                        /\ ret' = SvnFailed
                        /\ UNCHANGED <<pc, before_update_rev>>
                        /\ stack' = <<>> /\ cleaned' = <<>> /\ lastClean' = <<>>
                   ELSE /\ before_update_rev' = cur.value
                        /\ events' = ExecEvents(cur.execs)
                                     \o <<WriteEvent("before_update_rev", cur.value),
                                          CallEvent("ensure_clean_workspace")>>
                        /\ ret' = NoRet
                        /\ pc' = "clean"
                        /\ stack' = <<ensure_clean_frame(Root, "update_to")>>
                        /\ cleaned' = <<>>
                        /\ lastClean' = <<>>
    /\ UNCHANGED <<wcRev, wcUrl, after_update_rev>>
    /\ UNCHANGED <<externals, svnVars, extVars, sparseVars, diffVars, logVars, pathVars, gitVars>>

\* update_to after ensure_clean_workspace has returned: the update command.
UpdateToUpdate ==
    /\ pc = "update"
    /\ \E run \in SvnRuns :
          LET r == _svn(Root, update_args(op.target), TRUE, run.first, run.second)
          IN  /\ events' = events \o ExecEvents(r.execs)
              /\ IF r.raised
                   THEN pc' = "idle" /\ ret' = SvnFailed /\ UNCHANGED wcRev
                   ELSE /\ pc' = "updated" /\ UNCHANGED ret
                        /\ wcRev' \in UpdatedRevs(op.target)
    /\ UNCHANGED <<op, stack, cleaned, lastClean, wcUrl, before_update_rev, after_update_rev>>
    /\ UNCHANGED <<externals, svnVars, extVars, sparseVars, diffVars, logVars, pathVars, gitVars>>

\* update_to after a successful update: after_update_rev is recorded.
UpdateToRecordAfter ==
    /\ pc = "updated"
    /\ \E run \in SvnRuns :
          LET cur == get_current_revision(Root, run, wcRev)
          IN  IF cur.raised
                THEN /\ events' = events \o ExecEvents(cur.execs)
                     /\ ret' = SvnFailed
                     /\ UNCHANGED after_update_rev
                ELSE /\ events' = events \o ExecEvents(cur.execs)
                                  \o <<WriteEvent("after_update_rev", cur.value)>>
                     /\ ret' = Returned
                     /\ after_update_rev' = cur.value
    /\ pc' = "idle"
    /\ UNCHANGED <<op, stack, cleaned, lastClean, wcRev, wcUrl, before_update_rev>>
    /\ UNCHANGED <<externals, svnVars, extVars, sparseVars, diffVars, logVars, pathVars, gitVars>>

(***************************************************************************)
(* SvnOps.switch_to                                                        *)
(***************************************************************************)
switch_args(url, revision) ==
    <<"switch", url>> \o (IF revision # None /\ revision # "" THEN <<"-r", revision>> ELSE <<>>)

SwitchTo_skips_only_without_revision ==
    /\ pc = "idle"
    /\ \E url \in Urls, revision \in {None, "6"}, run \in SvnRuns :
          LET cur  == get_current_url(Root, run, wcUrl)
              skip == cur.raised \/ (cur.value = url /\ revision = None)
          IN  /\ op' = [name |-> "switch_to", url |-> url, revision |-> revision]
              /\ stack' = IF skip THEN <<>>
                          ELSE <<ensure_clean_frame(Root, "switch_to")>>
              /\ events' = ExecEvents(cur.execs)
                           \o (IF skip THEN <<>>
                               ELSE <<CallEvent("ensure_clean_workspace")>>)
              /\ ret' = IF cur.raised THEN SvnFailed
                        ELSE IF skip THEN Returned ELSE NoRet
              /\ pc' = IF skip THEN "idle" ELSE "clean"
    /\ cleaned' = <<>>
    /\ lastClean' = <<>>
    /\ UNCHANGED <<wcRev, wcUrl, before_update_rev, after_update_rev>>
    /\ UNCHANGED <<externals, svnVars, extVars, sparseVars, diffVars, logVars, pathVars, gitVars>>

\* switch_to up to its call of ensure_clean_workspace: nothing is done when
\* the working copy is at url already.
SwitchTo ==
    /\ pc = "idle"
    /\ \E url \in Urls, revision \in {None, "6"}, run \in SvnRuns :
          LET cur == get_current_url(Root, run, wcUrl)
          IN  /\ op' = [name |-> "switch_to", url |-> url, revision |-> revision]
              /\ stack' = IF cur.raised \/ cur.value = url THEN <<>>
                          ELSE <<ensure_clean_frame(Root, "switch_to")>>
              /\ events' = ExecEvents(cur.execs)
                           \o (IF cur.raised \/ cur.value = url THEN <<>>
                               ELSE <<CallEvent("ensure_clean_workspace")>>)
              /\ ret' = IF cur.raised THEN SvnFailed
                        ELSE IF cur.value = url THEN Returned ELSE NoRet
              /\ pc' = IF cur.raised \/ cur.value = url THEN "idle" ELSE "clean"
    /\ cleaned' = <<>>
    /\ lastClean' = <<>>
    /\ UNCHANGED <<wcRev, wcUrl, before_update_rev, after_update_rev>>
    /\ UNCHANGED <<externals, svnVars, extVars, sparseVars, diffVars, logVars, pathVars, gitVars>>

\* switch_to after ensure_clean_workspace has returned: the switch command.
SwitchToSwitch ==
    /\ pc = "switch"
    /\ \E run \in SvnRuns :
          LET r == _svn(Root, switch_args(op.url, op.revision), TRUE, run.first, run.second)
          IN  /\ events' = events \o ExecEvents(r.execs)
              /\ IF r.raised
                   THEN ret' = SvnFailed /\ UNCHANGED <<wcRev, wcUrl>>
                   ELSE /\ ret' = Returned
                        /\ wcUrl' = op.url
                        /\ wcRev' \in IF op.revision # None THEN {op.revision} ELSE Revs
    /\ pc' = "idle"
    /\ UNCHANGED <<op, stack, cleaned, lastClean, before_update_rev, after_update_rev>>
    /\ UNCHANGED <<externals, svnVars, extVars, sparseVars, diffVars, logVars, pathVars, gitVars>>

(***************************************************************************)
(* SvnOps.collect_change_summary / collect_update_result                   *)
(***************************************************************************)
\* A RevisionChange: its revision and, standing for author, date, message and
\* files, the repository it was logged from.
RevisionChange(revision, message) == [revision |-> revision, message |-> message]

\* The RevisionChange list parsed from the <logentry> elements svn printed.
parse_log(revs, repo) == [i \in DOMAIN revs |-> RevisionChange(revs[i], repo)]

\* What the environment answers to the time-range log of the main working
\* copy: the run of the command, and the history of the path (the revisions
\* that changed it), from which svn lists the range asked for.
MainLogs ==
    [run : {OkRun}, history : { {}, {"5", "7"}, {"5", "6", "7"} }]
    \cup { [run |-> FailRun, history |-> {"5", "6", "7"}] }

\* What the time-range log of an external can hold.
ExtLists == { <<>>, <<RevisionChange("6", "ext")>> }

\* What the environment answers for one external: whether `svn info` works,
\* the URL it prints, and the entries of the external's log (a failed log
\* prints nothing).
ExtAnswers ==
    { [url_ok |-> FALSE, url |-> "svn://u1", list |-> <<>>] }
    \cup [url_ok : {TRUE}, url : Urls, list : ExtLists]

time_range(t_start, t_end) ==
    IF t_start # None /\ t_start # ""
      THEN <<"{", t_start, "}:{", t_end, "}">>
      ELSE <<"{", t_end, "}">>

\* list: the log entries svn prints when the command succeeds; a failed
\* command (check=False) leaves out empty, parsed as <log/>.
get_external_revision_list_by_time(repo_path, t_start, t_end, run, list) ==
    LET r == _svn(repo_path, <<"log", "-v", "--xml", "-r", Str(time_range(t_start, t_end))>>,
                  FALSE, run.first, run.second)
    IN  [execs |-> r.execs, value |-> IF r.code = 0 THEN list ELSE <<>>]

\* summary["ext"][ext_url] = ex_list on a dict kept as a sequence of items in
\* insertion order: an existing key keeps its place and gets the new value.
dict_set(d, key, value) ==
    IF \E i \in DOMAIN d : d[i].key = key
      THEN [i \in DOMAIN d |-> IF d[i].key = key THEN [key |-> key, value |-> value]
                                                 ELSE d[i]]
      ELSE Append(d, [key |-> key, value |-> value])

\* One turn of the loop over get_all_externals() in collect_change_summary:
\* url, lst are what get_current_url and the log query of external e gave.
\* got: what each external's log query returned, in order.
collect_external(acc, e, url, lst) ==
    IF url.raised
      THEN [acc EXCEPT !.raised = TRUE, !.execs = @ \o url.execs]
      ELSE [acc EXCEPT !.execs = @ \o url.execs \o lst.execs,
                       !.ext   = dict_set(@, url.value, lst.value),
                       !.got   = Append(@, [path |-> e, url |-> url.value,
                                            list |-> lst.value])]

\* The loop; answers[i] is what the environment answers for paths[i].  An
\* exception of get_current_url ends it.
RECURSIVE collect_externals(_, _, _, _, _)
collect_externals(paths, answers, t_start, t_end, acc) ==
    IF paths = <<>> \/ acc.raised THEN acc
    ELSE collect_externals(Tail(paths), Tail(answers), t_start, t_end,
            collect_external(acc, Head(paths),
                get_current_url(Head(paths),
                                IF Head(answers).url_ok THEN OkRun ELSE FailRun,
                                Head(answers).url),
                get_external_revision_list_by_time(Head(paths), t_start, t_end, OkRun,
                                                   Head(answers).list)))

\* include_diff = False.  m: what the main working copy's log query gave.
\* With include_externals the externals are discovered first (one propget
\* per directory scanned), then queried one by one.
collect_change_summary_from(m, start_time, end_time, include_externals, answers) ==
    LET acc  == [raised |-> FALSE, execs |-> m.execs, main |-> m.value,
                 ext |-> <<>>, got |-> <<>>]
        all  == get_all_externals(Root)
        disc == [i \in DOMAIN all.scans |->
                    Exec(<<"svn">> \o get_externals_args, all.scans[i])]
    IN  IF include_externals
          THEN collect_externals(all.result, answers, start_time, end_time,
                                 [acc EXCEPT !.execs = @ \o disc])
          ELSE acc

collect_change_summary(start_time, end_time, include_externals, main, answers) ==
    collect_change_summary_from(
        get_external_revision_list_by_time(
            Root, start_time, end_time, main.run,
            parse_log(svn_log(main.history, time_range(start_time, end_time)), "main")),
        start_time, end_time, include_externals, answers)

_key_unparsed_last(c) == IF c.revision \in DOMAIN IntOf THEN IntOf[c.revision] ELSE 99

\* int(c.revision), or 0 when that raises ValueError.
_key(c) == IF c.revision \in DOMAIN IntOf THEN IntOf[c.revision] ELSE 0

\* Where list.sort puts c among the already sorted cs: after every element
\* whose key is not greater (the sort is stable).
insert_by_key(cs, c) ==
    LET k == Cardinality({i \in DOMAIN cs : _key(cs[i]) <= _key(c)})
    IN  SubSeq(cs, 1, k) \o <<c>> \o SubSeq(cs, k + 1, Len(cs))

\* list.sort(key=_key): stable, ascending.
RECURSIVE sort_by_key(_)
sort_by_key(cs) ==
    IF cs = <<>> THEN <<>>
    ELSE insert_by_key(sort_by_key(SubSeq(cs, 1, Len(cs) - 1)), cs[Len(cs)])

dict_values(d) == [i \in DOMAIN d |-> d[i].value]

NotUpdated == Raised("update_to() not executed")

\* The end of collect_update_result: the lists of the summary are
\* concatenated, sorted and returned with the two revisions.
update_result(execs, summary) ==
    IF summary.raised
      THEN [execs |-> execs \o summary.execs, main |-> summary.main, got |-> summary.got,
            ret |-> SvnFailed]
      ELSE [execs |-> execs \o summary.execs, main |-> summary.main, got |-> summary.got,
            ret |-> [status |-> "returned",
                     from_rev |-> before_update_rev,
                     to_rev |-> after_update_rev,
                     revision_changes |->
                         sort_by_key(summary.main \o Flatten(dict_values(summary.ext)))]]

\* collect_update_result once both get_rev_time calls are made.
collect_with_times(t_start, t_end, include_externals, main, answers) ==
    IF t_start.raised
      THEN [execs |-> t_start.execs, main |-> <<>>, got |-> <<>>, ret |-> SvnFailed]
    ELSE IF t_end.raised
      THEN [execs |-> t_start.execs \o t_end.execs, main |-> <<>>, got |-> <<>>,
            ret |-> SvnFailed]
    ELSE update_result(t_start.execs \o t_end.execs,
                       collect_change_summary(t_start.value, t_end.value,
                                              include_externals, main, answers))

collect_update_result_checks_before_only(include_externals, ts, te, main, answers) ==
    IF before_update_rev \in {None, ""}
      THEN [execs |-> <<>>, main |-> <<>>, got |-> <<>>, ret |-> NotUpdated]
      ELSE collect_with_times(
               get_rev_time(Root, before_update_rev,
                            IF ts = "fail" THEN FailRun ELSE OkRun, ts = "entry"),
               get_rev_time(Root, after_update_rev,
                            IF te = "fail" THEN FailRun ELSE OkRun, te = "entry"),
               include_externals, main, answers)

\* ts, te: the environment's answers to the two get_rev_time queries
\* ("entry": a log entry is printed, "empty": the log is empty, "fail").
collect_update_result(include_externals, ts, te, main, answers) ==
    IF before_update_rev \in {None, ""} \/ after_update_rev \in {None, ""}
      THEN [execs |-> <<>>, main |-> <<>>, got |-> <<>>, ret |-> NotUpdated]
      ELSE collect_with_times(
               get_rev_time(Root, before_update_rev,
                            IF ts = "fail" THEN FailRun ELSE OkRun, ts = "entry"),
               get_rev_time(Root, after_update_rev,
                            IF te = "fail" THEN FailRun ELSE OkRun, te = "entry"),
               include_externals, main, answers)

\* The answers to the two get_rev_time queries; the second is not asked when
\* the first raises.
RevTimeAnswers ==
    { <<"entry", "entry">>, <<"empty", "entry">>, <<"fail", "entry">>,
      <<"entry", "empty">>, <<"entry", "fail">> }

\* A caller invokes collect_update_result() on the handle.
CollectUpdateResult ==
    /\ pc = "idle"
    /\ \E t \in RevTimeAnswers :
       \E include_externals \in (IF t = <<"entry", "entry">> THEN BOOLEAN ELSE {FALSE}) :
       \E main \in (IF t = <<"entry", "entry">>
                       THEN MainLogs ELSE {[run |-> OkRun, history |-> {}]}) :
       \E answers \in [1 .. (IF include_externals
                               THEN Len(get_all_externals(Root).result) ELSE 0)
                       -> ExtAnswers] :
          LET r == collect_update_result(include_externals, t[1], t[2], main, answers)
          IN  /\ op' = [name |-> "collect_update_result",
                        include_externals |-> include_externals,
                        mainlog |-> main, main |-> r.main, got |-> r.got]
              /\ events' = ExecEvents(r.execs)
              /\ ret' = r.ret
    /\ stack' = <<>> /\ cleaned' = <<>> /\ lastClean' = <<>>
    /\ UNCHANGED <<pc, wcRev, wcUrl, before_update_rev, after_update_rev>>
    /\ UNCHANGED <<externals, svnVars, extVars, sparseVars, diffVars, logVars, pathVars, gitVars>>

(***************************************************************************)
(* HandleSpec: update_to and collect_update_result on one handle           *)
(***************************************************************************)
\* The main working copy declares two externals, B and B/C.
TwoExternals ==
    [d \in Dirs |-> IF d = Root THEN << <<"B">>, <<"B", "C">> >> ELSE <<>>]

HandleInit ==
    /\ InitRest
    /\ wcs = {}
    /\ externals \in { NoExternals, TwoExternals }

HandleNext ==
    \/ UpdateTo
    \/ RevertAndCleanup
    \/ CleanExternal
    \/ CleanReturn
    \/ UpdateToUpdate
    \/ UpdateToRecordAfter
    \/ CollectUpdateResult

HandleSpec == HandleInit /\ [][HandleNext]_vars

(***************************************************************************)
(* WorkSpec: update_to and switch_to calls on one handle                   *)
(***************************************************************************)
WorkInit ==
    /\ InitRest
    /\ wcs = {}
    /\ externals \in { NoExternals, TwoExternals }

WorkNext ==
    \/ UpdateTo
    \/ SwitchTo
    \/ RevertAndCleanup
    \/ CleanExternal
    \/ CleanReturn
    \/ UpdateToUpdate
    \/ UpdateToRecordAfter
    \/ SwitchToSwitch

WorkSpec == WorkInit /\ [][WorkNext]_vars

(***************************************************************************)
(* SvnOps.ensure_sparse_workspace                                          *)
(*                                                                         *)
(* A rule path is text: a sequence of characters.  A profile is            *)
(* [valid, projects]: valid says whether "projects" is a dict, projects    *)
(* are its items in insertion order.                                       *)
(***************************************************************************)
MaxRules == 3

\* A path of the model as the text handed to svn.
RECURSIVE path_str(_)
path_str(p) ==
    IF p = <<>> THEN ""
    ELSE IF Len(p) = 1 THEN Head(p)
    ELSE Head(p) \o "/" \o path_str(Tail(p))

RECURSIVE lstrip(_)
lstrip(cs) == IF cs # <<>> /\ Head(cs) = "/" THEN lstrip(Tail(cs)) ELSE cs

RECURSIVE rstrip(_)
rstrip(cs) ==
    IF cs # <<>> /\ cs[Len(cs)] = "/" THEN rstrip(SubSeq(cs, 1, Len(cs) - 1)) ELSE cs

\* str.strip("/")
strip(cs) == rstrip(lstrip(cs))

\* str.count("/")
count(cs) == Cardinality({i \in DOMAIN cs : cs[i] = "/"})

_depth(p) == count(strip(p))

\* Where sorted() puts item among the already sorted items: after every one
\* whose depth is not greater (sorted is stable).
insert_by_depth(items, item) ==
    LET k == Cardinality({i \in DOMAIN items : _depth(items[i].path) <= _depth(item.path)})
    IN  SubSeq(items, 1, k) \o <<item>> \o SubSeq(items, k + 1, Len(items))

sorted_paths_in_input_order(paths) == paths

\* sorted(paths, key=lambda x: _depth(x["path"]))
RECURSIVE sorted_paths(_)
sorted_paths(paths) ==
    IF paths = <<>> THEN <<>>
    ELSE insert_by_depth(sorted_paths(SubSeq(paths, 1, Len(paths) - 1)), paths[Len(paths)])

is_working_copy_never(project_path) == FALSE

\* os.path.isdir(os.path.join(repo_path, ".svn"))
is_working_copy(project_path) == project_path \in wcs

\* The rule paths a profile can hold.
PathStrs ==
    { <<"a">>, <<"a", "b">>, <<"a", "/", "b">>, <<"/", "a", "/">>,
      <<"a", "/", "b", "/", "a">>, <<"/">> }

\* depth: None when the item has no "depth".
Rules == [path : PathStrs, depth : {None}] \cup { [path |-> <<"a">>, depth |-> "empty"] }

RuleLists == UNION { [1 .. n -> Rules] : n \in 0 .. MaxRules }

Project(name, repo_url, root_path, root_depth, paths) ==
    [name |-> name, repo_url |-> repo_url, root_path |-> root_path,
     root_depth |-> root_depth, paths |-> paths]

\* The first project of a profile: any rule list, its root depth given or not.
FirstProjects ==
    { Project("p", "svn://u1", "p1", d, paths) : d \in {None, "immediates"}, paths \in RuleLists }

\* The projects that can follow it: one on the same root path, one on
\* another with a child rule ahead of its parent, one without repo_url,
\* one without root_path.
SecondProjects ==
    { Project("q", "svn://u1", "p1", None, <<>>),
      Project("q", "svn://u2", "p2", None,
              << [path |-> <<"a", "/", "b">>, depth |-> None],
                 [path |-> <<"a">>, depth |-> "immediates"] >>),
      Project("q", "", "p2", None, <<>>),
      Project("q", "svn://u2", "", None, << [path |-> <<"a">>, depth |-> None] >>) }

Profiles ==
    { NoProfile }
    \cup { [valid |-> TRUE, projects |-> <<Project("p", "", "p1", None, <<>>)>>] }
    \cup { [valid |-> TRUE, projects |-> <<p>>] : p \in FirstProjects }
    \cup { [valid |-> TRUE, projects |-> <<p, q>>] :
              p \in { f \in FirstProjects : Len(f.paths) <= 1 }, q \in SecondProjects }

ProjectPaths == { join(Root, <<"p1">>), join(Root, <<"p2">>) }

\* proj.get(key, "infinity")
get_depth(value) == IF value = None THEN "infinity" ELSE value

BadProfile == Raised("profile has no projects")
BadProject == Raised("project has no repo_url or root_path")

\* The project the loop is at, and its index in the profile.
CurIndex == Len(profile.projects) - Len(sp.rest) + 1
Cur == Head(sp.rest)
CurPath == join(Root, <<Cur.root_path>>)

\* One _svn call of ensure_sparse_workspace, as logged in sp.calls.
SvnLog(proj, rel, args, cwd, r) ==
    [proj |-> proj, rel |-> rel, args |-> args, cwd |-> cwd,
     execs |-> r.execs, raised |-> r.raised]

EnsureSparseWorkspace_checks_every_project_first ==
    /\ sp.pc = "new"
    /\ \E pr \in Profiles :
          /\ profile' = pr
          /\ IF ~pr.valid
               THEN sp' = [sp EXCEPT !.pc = "idle", !.ret = BadProfile]
             ELSE IF \E i \in DOMAIN pr.projects :
                        pr.projects[i].repo_url = "" \/ pr.projects[i].root_path = ""
               THEN sp' = [sp EXCEPT !.pc = "idle", !.ret = BadProject]
               ELSE sp' = [sp EXCEPT !.pc = "project", !.rest = pr.projects]
    /\ UNCHANGED wcs
    /\ UNCHANGED <<externals, svnVars, extVars, handleVars, diffVars, logVars, pathVars, gitVars>>

\* A caller invokes ensure_sparse_workspace(profile) on the workspace root.
EnsureSparseWorkspace ==
    /\ sp.pc = "new"
    /\ \E pr \in Profiles :
          /\ profile' = pr
          /\ IF ~pr.valid
               THEN sp' = [sp EXCEPT !.pc = "idle", !.ret = BadProfile]
               ELSE sp' = [sp EXCEPT !.pc = "project", !.rest = pr.projects]
    /\ UNCHANGED wcs
    /\ UNCHANGED <<externals, svnVars, extVars, handleVars, diffVars, logVars, pathVars, gitVars>>

\* The loop reaches a project: its fields are checked, it is checked out
\* unless it is a working copy, and its rules are sorted.
SparseProject ==
    /\ sp.pc = "project"
    /\ sp.rest # <<>>
    /\ IF Cur.repo_url = "" \/ Cur.root_path = ""
         THEN /\ sp' = [sp EXCEPT !.pc = "idle", !.ret = BadProject]
              /\ UNCHANGED wcs
         ELSE \E run \in SvnRuns :
                LET args == <<"checkout", Cur.repo_url, path_str(CurPath), "--depth",
                              get_depth(Cur.root_depth)>>
                    r    == _svn(CurPath, args, TRUE, run.first, run.second)
                    co   == ~is_working_copy(CurPath)
                    log  == IF co THEN Append(sp.calls, SvnLog(CurIndex, <<>>, args, CurPath, r))
                                  ELSE sp.calls
                    seen == Append(sp.was_wc, CurPath \in wcs)
                IN  IF co /\ r.raised
                      THEN /\ sp' = [sp EXCEPT !.pc = "idle", !.ret = SvnFailed,
                                               !.calls = log, !.was_wc = seen]
                           /\ wcs' \in {wcs, wcs \cup {CurPath}}
                      ELSE /\ wcs' = IF co THEN wcs \cup {CurPath} ELSE wcs
                           /\ IF Cur.paths = <<>>
                                THEN sp' = [sp EXCEPT !.rest = Tail(@), !.done = @ + 1,
                                                      !.calls = log, !.was_wc = seen]
                                ELSE sp' = [sp EXCEPT !.pc = "expand",
                                                      !.todo = sorted_paths(Cur.paths),
                                                      !.calls = log, !.was_wc = seen]
    /\ UNCHANGED profile
    /\ UNCHANGED <<externals, svnVars, extVars, handleVars, diffVars, logVars, pathVars, gitVars>>

SparseExpand_failure_skipped ==
    /\ sp.pc = "expand"
    /\ \E run \in SvnRuns :
          LET item == Head(sp.todo)
              rel  == strip(item.path)
              args == <<"update", Str(rel), "--depth", get_depth(item.depth)>>
              r    == _svn(CurPath, args, TRUE, run.first, run.second)
              log  == Append(sp.calls, SvnLog(CurIndex, rel, args, CurPath, r))
          IN  IF Tail(sp.todo) = <<>>
                THEN sp' = [sp EXCEPT !.pc = "project", !.rest = Tail(@), !.done = @ + 1,
                                      !.todo = <<>>, !.calls = log]
                ELSE sp' = [sp EXCEPT !.todo = Tail(@), !.calls = log]
    /\ UNCHANGED <<profile, wcs>>
    /\ UNCHANGED <<externals, svnVars, extVars, handleVars, diffVars, logVars, pathVars, gitVars>>

\* The next rule of the project: one update on its relative path.
SparseExpand ==
    /\ sp.pc = "expand"
    /\ \E run \in SvnRuns :
          LET item == Head(sp.todo)
              rel  == strip(item.path)
              args == <<"update", Str(rel), "--depth", get_depth(item.depth)>>
              r    == _svn(CurPath, args, TRUE, run.first, run.second)
              log  == Append(sp.calls, SvnLog(CurIndex, rel, args, CurPath, r))
          IN  IF r.raised
                THEN sp' = [sp EXCEPT !.pc = "idle", !.ret = SvnFailed, !.calls = log]
              ELSE IF Tail(sp.todo) = <<>>
                THEN sp' = [sp EXCEPT !.pc = "project", !.rest = Tail(@), !.done = @ + 1,
                                      !.todo = <<>>, !.calls = log]
                ELSE sp' = [sp EXCEPT !.todo = Tail(@), !.calls = log]
    /\ UNCHANGED <<profile, wcs>>
    /\ UNCHANGED <<externals, svnVars, extVars, handleVars, diffVars, logVars, pathVars, gitVars>>

\* No project is left: ensure_sparse_workspace returns.
SparseReturn ==
    /\ sp.pc = "project"
    /\ sp.rest = <<>>
    /\ sp' = [sp EXCEPT !.pc = "idle", !.ret = Returned]
    /\ UNCHANGED <<profile, wcs>>
    /\ UNCHANGED <<externals, svnVars, extVars, handleVars, diffVars, logVars, pathVars, gitVars>>

\* Any of the project paths may already hold a working copy.
SparseInit ==
    /\ InitRest
    /\ externals = NoExternals
    /\ wcs \in SUBSET ProjectPaths

SparseNext == EnsureSparseWorkspace \/ SparseProject \/ SparseExpand \/ SparseReturn

SparseSpec == SparseInit /\ [][SparseNext]_vars

(***************************************************************************)
(* SvnOps.update_paths_to_revision / update_paths_from_json                *)
(*                                                                         *)
(* A rule is [path, revision]; None stands for a key the rule lacks.       *)
(***************************************************************************)
PathRule(path, revision) == [path |-> path, revision |-> revision]

\* Rules a file can hold: two complete ones, one without "path", one
\* without "revision", one whose path is the empty text.
PathRules ==
    { PathRule("a", "5"), PathRule("b", "6"), PathRule(None, "5"), PathRule("a", None),
      PathRule("", "7") }

PathRuleLists == UNION { [1 .. n -> PathRules] : n \in 0 .. MaxRules }

\* `not rel or not rev` on what rule.get() returned.
illegal(rule) == rule.path \in {None, ""} \/ rule.revision \in {None, ""}

\* What json.load gives: an object without "paths", one whose "paths" is not
\* a list (is: "other"), one whose "paths" is a list of rules; or the open /
\* the parse fails.
JsonFiles ==
    { [readable |-> r, is |-> k, paths |-> <<>>] :
          r \in BOOLEAN, k \in {"absent", "other"} }
    \cup { [readable |-> TRUE, is |-> "list", paths |-> v] : v \in PathRuleLists }

Unreadable == [status |-> "raised", exception |-> "OSError", msg |-> "cannot load json"]
BadPaths == Raised("paths is not a list")

\* update_paths_from_json(json_path): the file is loaded, "paths" defaults to
\* [] and must be a list, then the rules are gone through.
UpdatePathsFromJson ==
    /\ up.pc = "new"
    /\ \E data \in JsonFiles :
          IF ~data.readable
            THEN up' = [up EXCEPT !.pc = "idle", !.via = "update_paths_from_json",
                                  !.json = data, !.ret = Unreadable]
          ELSE IF data.is = "other"
            THEN up' = [up EXCEPT !.pc = "idle", !.via = "update_paths_from_json",
                                  !.json = data, !.ret = BadPaths]
            ELSE LET rules == IF data.is = "absent" THEN <<>> ELSE data.paths
                 IN  up' = [up EXCEPT !.pc = "rule", !.via = "update_paths_from_json",
                                      !.json = data, !.rules = rules, !.rest = rules]
    /\ UNCHANGED cko
    /\ UNCHANGED <<externals, svnVars, extVars, handleVars, sparseVars, diffVars, logVars,
                   gitVars>>

\* A caller invokes update_paths_to_revision(rules) itself.
UpdatePathsToRevision ==
    /\ up.pc = "new"
    /\ \E rules \in PathRuleLists :
          up' = [up EXCEPT !.pc = "rule", !.via = "update_paths_to_revision",
                           !.rules = rules, !.rest = rules]
    /\ UNCHANGED cko
    /\ UNCHANGED <<externals, svnVars, extVars, handleVars, sparseVars, diffVars, logVars,
                   gitVars>>

\* One _svn call of update_paths_to_revision, as logged in up.calls.
PathLog(rule, args, r) ==
    [rule |-> rule, args |-> args, cwd |-> Root, execs |-> r.execs, raised |-> r.raised]

UpdatePathsRule_illegal_rule_aborts ==
    /\ up.pc = "rule"
    /\ up.rest # <<>>
    /\ LET rule == Head(up.rest)
       IN  IF illegal(rule)
             THEN up' = [up EXCEPT !.pc = "idle", !.ret = SvnFailed]
             ELSE \E run \in SvnRuns, exists \in BOOLEAN :
                    LET args == <<"update", rule.path, "-r", rule.revision, "--depth=infinity">>
                        r    == _svn(Root, args, TRUE, run.first, run.second)
                        log  == Append(up.calls, PathLog(up.done + 1, args, r))
                        made == IF exists \/ rule.path \in up.made
                                  THEN up.made ELSE up.made \cup {rule.path}
                    IN  IF r.raised
                          THEN up' = [up EXCEPT !.pc = "idle", !.ret = SvnFailed,
                                                !.calls = log, !.made = made]
                          ELSE up' = [up EXCEPT !.rest = Tail(@), !.done = @ + 1,
                                                !.calls = log, !.made = made]
    /\ UNCHANGED cko
    /\ UNCHANGED <<externals, svnVars, extVars, handleVars, sparseVars, diffVars, logVars,
                   gitVars>>

\* The loop takes the next rule: an illegal one is skipped; for any other
\* the directory is made when it does not exist and the path is updated to
\* the revision.
UpdatePathsRule ==
    /\ up.pc = "rule"
    /\ up.rest # <<>>
    /\ LET rule == Head(up.rest)
       IN  IF illegal(rule)
             THEN up' = [up EXCEPT !.rest = Tail(@), !.done = @ + 1]
             ELSE \E run \in SvnRuns, exists \in BOOLEAN :
                    LET args == <<"update", rule.path, "-r", rule.revision, "--depth=infinity">>
                        r    == _svn(Root, args, TRUE, run.first, run.second)
                        log  == Append(up.calls, PathLog(up.done + 1, args, r))
                        made == IF exists \/ rule.path \in up.made
                                  THEN up.made ELSE up.made \cup {rule.path}
                    IN  IF r.raised
                          THEN up' = [up EXCEPT !.pc = "idle", !.ret = SvnFailed,
                                                !.calls = log, !.made = made]
                          ELSE up' = [up EXCEPT !.rest = Tail(@), !.done = @ + 1,
                                                !.calls = log, !.made = made]
    /\ UNCHANGED cko
    /\ UNCHANGED <<externals, svnVars, extVars, handleVars, sparseVars, diffVars, logVars,
                   gitVars>>

\* No rule is left: update_paths_to_revision returns.
UpdatePathsReturn ==
    /\ up.pc = "rule"
    /\ up.rest = <<>>
    /\ up' = [up EXCEPT !.pc = "idle", !.ret = Returned]
    /\ UNCHANGED cko
    /\ UNCHANGED <<externals, svnVars, extVars, handleVars, sparseVars, diffVars, logVars,
                   gitVars>>

PathsInit ==
    /\ InitRest
    /\ externals = NoExternals
    /\ wcs = {}

PathsNext ==
    UpdatePathsFromJson \/ UpdatePathsToRevision \/ UpdatePathsRule \/ UpdatePathsReturn

PathsSpec == PathsInit /\ [][PathsNext]_vars

(***************************************************************************)
(* SvnOps.checkout                                                         *)
(***************************************************************************)
MaxCalls == 3

\* os.path.dirname
dirname(path) == SubSeq(path, 1, Len(path) - 1)

\* The revisions a caller passes: none, the empty text, or a revision.
CheckoutRevisions == {None, "", "6"}

svn_checkout_whatever_is_there(repo_path, url, revision, proc) ==
    run_cmd(<<"svn", "checkout", url, path_str(repo_path)>>
               \o (IF revision \in {None, ""} THEN <<>> ELSE <<"-r", revision>>),
            dirname(repo_path), TRUE, proc)

\* checkout(url, revision): nothing when repo_path is a working copy; else
\* one strict `svn checkout url repo_path [-r revision]` run in the parent
\* directory, by run_cmd itself.
svn_checkout(repo_path, url, revision, proc) ==
    IF is_working_copy(repo_path)
      THEN [execs |-> <<>>, code |-> 0, out |-> "", err |-> <<>>, raised |-> FALSE,
            error |-> NoError]
      ELSE run_cmd(<<"svn", "checkout", url, path_str(repo_path)>>
                      \o (IF revision \in {None, ""} THEN <<>> ELSE <<"-r", revision>>),
                   dirname(repo_path), TRUE, proc)

\* A caller invokes checkout(url, revision) on the workspace root.  A
\* checkout process that succeeds leaves a working copy of url at the
\* revision asked for (the newest one when none is); one that fails may
\* have left the administrative directory behind.
Checkout ==
    /\ cko.n < MaxCalls
    /\ \E url \in Urls, revision \in CheckoutRevisions, proc \in Procs :
          LET r      == svn_checkout(Root, url, revision, proc)
              target == IF revision \in {None, ""} THEN RevOrder[Len(RevOrder)] ELSE revision
          IN  /\ cko' = [n |-> cko.n + 1, url |-> url, revision |-> revision,
                         was_wc |-> Root \in wcs,
                         seen |-> [wcs |-> wcs, url |-> wcUrl, rev |-> wcRev],
                         after_success |-> cko.n > 0 /\ cko.execs # <<>> /\ ~cko.raised,
                         execs |-> r.execs, raised |-> r.raised, error |-> r.error]
              /\ IF r.execs = <<>>
                   THEN UNCHANGED <<wcs, wcUrl, wcRev>>
                 ELSE IF ~r.raised
                   THEN wcs' = wcs \cup {Root} /\ wcUrl' = url /\ wcRev' = target
                   ELSE \/ UNCHANGED <<wcs, wcUrl, wcRev>>
                        \/ wcs' = wcs \cup {Root} /\ wcUrl' = url /\ wcRev' \in {"0", target}
    /\ UNCHANGED <<pc, op, stack, cleaned, lastClean, before_update_rev, after_update_rev,
                   events, ret>>
    /\ UNCHANGED <<profile, sp, up>>
    /\ UNCHANGED <<externals, svnVars, extVars, diffVars, logVars, gitVars>>

\* The workspace root may already hold a working copy.
CheckoutInit ==
    /\ InitRest
    /\ externals = NoExternals
    /\ wcs \in SUBSET {Root}

CheckoutNext == Checkout

CheckoutSpec == CheckoutInit /\ [][CheckoutNext]_vars

(***************************************************************************)
(* SvnOps.get_diff                                                         *)
(*                                                                         *)
(* The text svn prints is a sequence of characters.                        *)
(***************************************************************************)
MaxOutLen == 5
MaxCap == 3

Chars == { "x", "\n", "\r" }

\* What `svn diff` can print.
Outs == UNION { [1 .. n -> Chars] : n \in 0 .. MaxOutLen }

\* str.splitlines() from cs on, cur being the line read so far: "\n", "\r"
\* and "\r\n" end a line (the line ends svn prints), and a last line needs
\* no end.
RECURSIVE split_from(_, _)
split_from(cs, cur) ==
    IF cs = <<>> THEN (IF cur = <<>> THEN <<>> ELSE <<cur>>)
    ELSE IF Head(cs) = "\r" /\ Len(cs) >= 2 /\ cs[2] = "\n"
      THEN <<cur>> \o split_from(Tail(Tail(cs)), <<>>)
    ELSE IF Head(cs) \in {"\n", "\r"}
      THEN <<cur>> \o split_from(Tail(cs), <<>>)
    ELSE split_from(Tail(cs), Append(cur, Head(cs)))

splitlines(cs) == split_from(cs, <<>>)

\* "\n".join(lines)
RECURSIVE join_lines(_)
join_lines(lines) ==
    IF lines = <<>> THEN <<>>
    ELSE IF Len(lines) = 1 THEN Head(lines)
    ELSE Head(lines) \o <<"\n">> \o join_lines(Tail(lines))

\* str(k) for k >= 0, as characters.
RECURSIVE digits(_)
digits(k) == IF k < 10 THEN <<ToString(k)>> ELSE digits(k \div 10) \o <<ToString(k % 10)>>

\* The line appended to a truncated diff: the f-string of get_diff with its
\* fixed words (k more lines were cut) standing as single characters.
truncated_marker(k) == <<".", ".", ".", "(", "remaining ">> \o digits(k) \o <<" lines cut", ")">>

get_diff_args(revision, file_path) ==
    IF file_path # None /\ file_path # ""
      THEN <<"diff", "-c", revision, file_path>>
      ELSE <<"diff", "-c", revision>>

truncate_from_max_lines(out, max_lines) ==
    LET lines == splitlines(out)
    IN  IF Len(lines) >= max_lines
          THEN join_lines(Append(SubSeq(lines, 1, max_lines),
                                 truncated_marker(Len(lines) - max_lines)))
          ELSE out

\* get_diff after its _svn call: out is split into lines and cut.
truncate(out, max_lines) ==
    LET lines == splitlines(out)
    IN  IF Len(lines) > max_lines
          THEN join_lines(Append(SubSeq(lines, 1, max_lines),
                                 truncated_marker(Len(lines) - max_lines)))
          ELSE out

\* A caller invokes get_diff(revision, file_path, max_lines) on the handle of
\* the main working copy; out is what svn prints if it succeeds.
GetDiff ==
    /\ ~diff.called
    /\ \E file_path \in {None, "f.txt"}, max_lines \in 0 .. MaxCap,
          run \in {OkRun, FailRun}, out \in Outs :
          LET args == get_diff_args("6", file_path)
              r    == _svn(Root, args, TRUE, run.first, run.second)
          IN  IF r.raised
                THEN diff' = [called |-> TRUE, args |-> args, max_lines |-> max_lines,
                              execs |-> r.execs, raised |-> TRUE,
                              out |-> <<>>, result |-> <<>>]
                ELSE diff' = [called |-> TRUE, args |-> args, max_lines |-> max_lines,
                              execs |-> r.execs, raised |-> FALSE,
                              out |-> out, result |-> truncate(out, max_lines)]
    /\ UNCHANGED <<externals, wcs, svnVars, extVars, handleVars>>
    /\ UNCHANGED <<profile, sp, logVars, pathVars, gitVars>>

DiffInit == InitRest /\ wcs = {} /\ externals = NoExternals

DiffNext == GetDiff

DiffSpec == DiffInit /\ [][DiffNext]_vars

(***************************************************************************)
(* SvnOps.get_revision_list                                                *)
(***************************************************************************)
\* The text after `-r`: f"{from_rev}:{to_rev}" if from_rev else to_rev.
rev_range(from_rev, to_rev) ==
    IF from_rev # None /\ from_rev # "" THEN <<from_rev, ":", to_rev>> ELSE <<to_rev>>

\* history: the revisions that changed the working copy's path.
get_revision_list(repo_path, from_rev, to_rev, run, history) ==
    LET range == rev_range(from_rev, to_rev)
        r     == _svn(repo_path, <<"log", "-v", "--xml", "-r", Str(range)>>, TRUE,
                      run.first, run.second)
    IN  [execs |-> r.execs, raised |-> r.raised,
         value |-> IF r.raised THEN <<>> ELSE parse_log(svn_log(history, range), "main")]

\* A caller invokes get_revision_list(from_rev, to_rev) on the handle of the
\* main working copy.
GetRevisionList ==
    /\ ~revlist.called
    /\ \E from_rev \in Revs \cup {None, ""}, to_rev \in Revs, run \in SvnRuns,
          history \in SUBSET Revs :
          LET r == get_revision_list(Root, from_rev, to_rev, run, history)
          IN  revlist' = [called |-> TRUE, from_rev |-> from_rev, to_rev |-> to_rev,
                          history |-> history, execs |-> r.execs, raised |-> r.raised,
                          value |-> r.value]
    /\ UNCHANGED <<externals, svnVars, extVars, handleVars, sparseVars, diffVars, pathVars,
                   gitVars>>

LogInit == InitRest /\ wcs = {} /\ externals = NoExternals

LogNext == GetRevisionList

LogSpec == LogInit /\ [][LogNext]_vars

(***************************************************************************)
(* SortSpec: the merge and sort of collect_update_result on any lists      *)
(***************************************************************************)
MaxChanges == 3

\* The revision attributes a <logentry> can carry: numbers, nothing, text.
RevisionIds == { "0", "5", "", "abc" }

ChangeLists ==
    UNION { [1 .. n -> {RevisionChange(r, "main") : r \in RevisionIds}] : n \in 0 .. MaxChanges }

ExtChangeLists == { <<>>, <<RevisionChange("0", "ext")>>, <<RevisionChange("", "ext")>> }

\* collect_update_result from the summary on: main and one external's list
\* are merged, sorted and returned.
SortChanges ==
    /\ pc = "idle"
    /\ op.name = None
    /\ \E main \in ChangeLists, lst \in ExtChangeLists :
          LET got     == << [path |-> <<"A", "B">>, url |-> "svn://u1", list |-> lst] >>
              summary == [raised |-> FALSE, execs |-> <<>>, main |-> main,
                          ext |-> dict_set(<<>>, "svn://u1", lst), got |-> got]
              r       == update_result(<<>>, summary)
          IN  /\ op' = [name |-> "sort_changes", include_externals |-> TRUE,
                        main |-> r.main, got |-> r.got]
              /\ ret' = r.ret
    /\ UNCHANGED <<pc, stack, cleaned, lastClean, wcRev, wcUrl, before_update_rev,
                   after_update_rev, events>>
    /\ UNCHANGED <<externals, svnVars, extVars, sparseVars, diffVars, logVars, pathVars, gitVars>>

\* The handle after an update_to from revision 5 to revision 7.
SortInit ==
    /\ InitIdle
    /\ before_update_rev = "5"
    /\ after_update_rev = "7"
    /\ wcs = {}
    /\ externals = NoExternals

SortNext == SortChanges

SortSpec == SortInit /\ [][SortNext]_vars

(***************************************************************************)
(* git_ops.update_repo                                                     *)
(*                                                                         *)
(* The git processes are the environment: each run_git either succeeds or  *)
(* fails, and the first failure raises GitCommandError out of update_repo. *)
(* The key files that exist and PXTA_SSH_KEY are the environment too.      *)
(***************************************************************************)
Dest == "dest"

ExplicitKey == "explicit.key"
EnvKey      == "env.key"
DefaultKeys == <<"~/.ssh/id_ed25519", "~/.ssh/id_rsa">>

\* The environment of key resolution: the value of PXTA_SSH_KEY and the key
\* files that exist.
KeyWorlds ==
    [env_key : {None, EnvKey},
     files : { {}, {ExplicitKey}, {EnvKey}, {ExplicitKey, DefaultKeys[2]},
               {DefaultKeys[1], DefaultKeys[2]} }]

NoKeyFound == "GitError: no usable SSH key"
KeyMissing == "GitError: SSH key does not exist"
NotARepo   == "GitError: not a Git repository"

\* The key path, or NoKeyFound for the GitError.
get_default_ssh_key(w) ==
    IF w.env_key # None /\ w.env_key \in w.files THEN w.env_key
    ELSE IF DefaultKeys[1] \in w.files THEN DefaultKeys[1]
    ELSE IF DefaultKeys[2] \in w.files THEN DefaultKeys[2]
    ELSE NoKeyFound

_build_ssh_env_unchecked(ssh_key, w) ==
    LET key == IF ssh_key # None /\ ssh_key # "" THEN ssh_key ELSE get_default_ssh_key(w)
    IN  [ok |-> TRUE, key |-> IF key = NoKeyFound THEN DefaultKeys[2] ELSE key]

\* The key of GIT_SSH_COMMAND, or the GitError raised.
_build_ssh_env(ssh_key, w) ==
    LET key == IF ssh_key # None /\ ssh_key # "" THEN ssh_key ELSE get_default_ssh_key(w)
    IN  IF key = NoKeyFound THEN [ok |-> FALSE, error |-> NoKeyFound]
        ELSE IF key \notin w.files THEN [ok |-> FALSE, error |-> KeyMissing]
        ELSE [ok |-> TRUE, key |-> key]

\* One run_git call: the command, its working directory and the ssh_key
\* argument it is given.
run_git(args, cwd, ssh_key) == [argv |-> <<"git">> \o args, cwd |-> cwd, ssh_key |-> ssh_key]

\* The keyword-only parameters of update_repo and their defaults in its
\* signature.
DefaultReset == TRUE
DefaultClean == TRUE

\* A keyword argument as the caller gives it: not at all, True or False.
Passed == { "default", "yes", "no" }

reset_of(passed) == IF passed = "default" THEN DefaultReset ELSE passed = "yes"
clean_of(passed) == IF passed = "default" THEN DefaultClean ELSE passed = "yes"

fetch(path, ssh_key) == <<run_git(<<"fetch", "--all">>, path, ssh_key)>>

checkout(path, target, ssh_key) == <<run_git(<<"checkout", target>>, path, ssh_key)>>

pull(path, ssh_key) == <<run_git(<<"pull">>, path, ssh_key)>>

submodule_sync(path, ssh_key) ==
    <<run_git(<<"submodule", "sync", "--recursive">>, path, ssh_key)>>

submodule_update(path, ssh_key) ==
    <<run_git(<<"submodule", "update", "--init", "--recursive">>, path, ssh_key)>>

reset_hard(path, ssh_key) == <<run_git(<<"reset", "--hard", "HEAD">>, path, ssh_key)>>

clean_untracked(path, ssh_key) == <<run_git(<<"clean", "-fd">>, path, ssh_key)>>

foreach(path, command, ssh_key) ==
    <<run_git(<<"submodule", "foreach", "--recursive", command>>, path, ssh_key)>>

lfs_pull(path, ssh_key) ==
    <<run_git(<<"lfs", "fetch", "--all">>, path, ssh_key),
      run_git(<<"lfs", "pull">>, path, ssh_key)>>

lfs_install(path, ssh_key) == <<run_git(<<"lfs", "install">>, path, ssh_key)>>

lfs_pull_all_submodules(path, ssh_key) == foreach(path, "git lfs pull", ssh_key)

\* The three queries call run_git without ssh_key.
get_head(path) == <<run_git(<<"rev-parse", "HEAD">>, path, None)>>

get_submodule_states(path) ==
    <<run_git(<<"submodule", "status", "--recursive">>, path, None)>>

\* No process when a = b.
get_commits_between(path, a, b) ==
    IF a = b THEN <<>>
    ELSE <<run_git(<<"log", a \o ".." \o b, "--pretty=format:%H|%an|%ae|%ad|%s", "--date=iso">>,
                   path, None)>>

\* line.split("|", 4) of a log line given as its "|"-separated pieces: the
\* subject keeps the separators after the fourth.
RECURSIVE join_bar(_)
join_bar(pieces) ==
    IF Len(pieces) = 1 THEN pieces[1] ELSE pieces[1] \o "|" \o join_bar(Tail(pieces))

commit_of(pieces) ==
    [commit |-> pieces[1], author |-> pieces[2], email |-> pieces[3], date |-> pieces[4],
     message |-> join_bar(SubSeq(pieces, 5, Len(pieces)))]

\* What `git log a..b` prints: here one line, for b, whose subject holds "|".
log_lines(a, b) == << <<b, "an", "ae", "ad", "fix", "x|y">> >>

commits_between(a, b) ==
    IF a = b THEN <<>>
    ELSE [i \in DOMAIN log_lines(a, b) |-> commit_of(log_lines(a, b)[i])]

\* One line of `git submodule status`: its first token is the commit behind
\* an optional "+" or "-".
StatusOf(prefix, commit, path) == [prefix |-> prefix, commit |-> commit, path |-> path]

\* parts[0].lstrip("+-")
strip_state(line) == IF line.prefix \in {"", "+", "-"} THEN line.commit
                     ELSE line.prefix \o line.commit

\* The dict {submodule_path: commit} as its items in order.
RECURSIVE parse_states(_)
parse_states(lines) ==
    IF lines = <<>> THEN <<>>
    ELSE dict_set(parse_states(SubSeq(lines, 1, Len(lines) - 1)),
                  lines[Len(lines)].path, strip_state(lines[Len(lines)]))

\* d.get(key): the value, or None.
dict_get(d, key) ==
    IF \E i \in DOMAIN d : d[i].key = key
      THEN d[CHOOSE i \in DOMAIN d : d[i].key = key].value
      ELSE None

clone(url, dest, branch, recursive, lfs, ssh_key) ==
    <<run_git(<<"clone", url, dest>>
              \o (IF branch # None /\ branch # "" THEN <<"-b", branch>> ELSE <<>>)
              \o (IF recursive THEN <<"--recursive">> ELSE <<>>), None, ssh_key)>>
    \o (IF lfs THEN lfs_install(dest, ssh_key) \o lfs_pull(dest, ssh_key) ELSE <<>>)

destructive_steps_clean_under_reset(dest, recursive, reset, clean, ssh_key) ==
    IF reset
      THEN reset_hard(dest, ssh_key)
           \o (IF recursive THEN foreach(dest, "git reset --hard HEAD", ssh_key) ELSE <<>>)
           \o (IF clean
                 THEN clean_untracked(dest, ssh_key)
                      \o (IF recursive THEN foreach(dest, "git clean -fd", ssh_key) ELSE <<>>)
                 ELSE <<>>)
      ELSE <<>>

\* The opt-in block of update_repo on an existing dest.
destructive_steps(dest, recursive, reset, clean, ssh_key) ==
    (IF reset
       THEN reset_hard(dest, ssh_key)
            \o (IF recursive THEN foreach(dest, "git reset --hard HEAD", ssh_key) ELSE <<>>)
       ELSE <<>>)
    \o (IF clean
          THEN clean_untracked(dest, ssh_key)
               \o (IF recursive THEN foreach(dest, "git clean -fd", ssh_key) ELSE <<>>)
          ELSE <<>>)

update_steps_pull_first(dest, branch, recursive, lfs, ssh_key) ==
    (IF branch # None /\ branch # "" THEN checkout(dest, branch, ssh_key) ELSE <<>>)
    \o pull(dest, ssh_key) \o fetch(dest, ssh_key)
    \o (IF recursive
          THEN submodule_sync(dest, ssh_key) \o submodule_update(dest, ssh_key)
          ELSE <<>>)
    \o (IF lfs
          THEN lfs_install(dest, ssh_key) \o lfs_pull(dest, ssh_key)
               \o lfs_pull_all_submodules(dest, ssh_key)
          ELSE <<>>)

\* checkout, fetch, pull, submodules, LFS.
update_steps(dest, branch, recursive, lfs, ssh_key) ==
    (IF branch # None /\ branch # "" THEN checkout(dest, branch, ssh_key) ELSE <<>>)
    \o fetch(dest, ssh_key) \o pull(dest, ssh_key)
    \o (IF recursive
          THEN submodule_sync(dest, ssh_key) \o submodule_update(dest, ssh_key)
          ELSE <<>>)
    \o (IF lfs
          THEN lfs_install(dest, ssh_key) \o lfs_pull(dest, ssh_key)
               \o lfs_pull_all_submodules(dest, ssh_key)
          ELSE <<>>)

\* What git answers: the heads of dest before and after, and the lines of
\* `git submodule status` before and after.
GitAnswers ==
    [head_before : {"c1"}, head_after : {"c1", "c2"},
     sub_before : { <<>>, <<StatusOf("", "s1", "p"), StatusOf("", "t1", "q")>> },
     sub_after : { <<>>,
                   <<StatusOf("+", "s2", "p"), StatusOf("", "t1", "q")>>,
                   <<StatusOf("-", "s1", "p"), StatusOf("", "t1", "q")>>,
                   <<StatusOf("", "t2", "q")>> }]

\* The submodules whose commit differs from a recorded earlier one, every
\* item of subs_after against subs_before.
changed_submodules_all_listed(subs_before, subs_after) ==
    [i \in DOMAIN subs_after |-> [path |-> subs_after[i].key,
                                  from |-> dict_get(subs_before, subs_after[i].key),
                                  to |-> subs_after[i].value]]

changed_submodules(subs_before, subs_after) ==
    LET keep(i) == LET old_commit == dict_get(subs_before, subs_after[i].key)
                   IN  old_commit # None /\ old_commit # ""
                       /\ old_commit # subs_after[i].value
        RECURSIVE from(_)
        from(i) == IF i > Len(subs_after) THEN <<>>
                   ELSE (IF keep(i)
                           THEN <<[path |-> subs_after[i].key,
                                   from |-> dict_get(subs_before, subs_after[i].key),
                                   to |-> subs_after[i].value]>>
                           ELSE <<>>) \o from(i + 1)
    IN  from(1)

RECURSIVE submodule_logs(_, _)
submodule_logs(dest, changed) ==
    IF changed = <<>> THEN <<>>
    ELSE get_commits_between(dest \o "/" \o changed[1].path, changed[1].from, changed[1].to)
         \o submodule_logs(dest, Tail(changed))

main_before_of_always_read(exists, g) == g.head_before

\* The two snapshots of a call: main_before is None and subs_before empty
\* when dest does not exist.
main_before_of(exists, g) == IF exists THEN g.head_before ELSE None
subs_before_of(exists, g) == IF exists THEN parse_states(g.sub_before) ELSE <<>>

\* The run_git calls of a whole update_repo when none fails.  exists: whether
\* dest exists when update_repo is entered.
update_repo_steps(url, dest, branch, recursive, lfs, ssh_key, reset, clean, exists, g) ==
    IF exists
      THEN get_head(dest) \o get_submodule_states(dest)
           \o destructive_steps(dest, recursive, reset, clean, ssh_key)
           \o update_steps(dest, branch, recursive, lfs, ssh_key)
           \o get_head(dest) \o get_submodule_states(dest)
           \o get_commits_between(dest, g.head_before, g.head_after)
           \o submodule_logs(dest, changed_submodules(parse_states(g.sub_before),
                                                      parse_states(g.sub_after)))
      ELSE clone(url, dest, branch, recursive, lfs, ssh_key)
           \o get_head(dest) \o get_submodule_states(dest)

\* The dict update_repo returns.
update_info(dest, exists, g) ==
    LET main_before == main_before_of(exists, g)
        changed     == changed_submodules(subs_before_of(exists, g), parse_states(g.sub_after))
    IN  [repo |-> [path |-> dest, from |-> main_before, to |-> g.head_after,
                   commits |-> IF main_before # None
                                 THEN commits_between(main_before, g.head_after)
                                 ELSE <<>>],
         submodules |-> [i \in DOMAIN changed |->
                            [path |-> changed[i].path, from |-> changed[i].from,
                             to |-> changed[i].to,
                             commits |-> commits_between(changed[i].from, changed[i].to)]]]

NoInfo == [repo |-> None]

\* What dest is when update_repo is entered.
DestStates == { "absent", "directory", "repository" }

\* The index of the first call whose key does not resolve, 0 if every one
\* does.
KeylessAt(steps, w) ==
    IF \E i \in DOMAIN steps : ~_build_ssh_env(steps[i].ssh_key, w).ok
      THEN CHOOSE i \in DOMAIN steps :
              /\ ~_build_ssh_env(steps[i].ssh_key, w).ok
              /\ \A j \in 1 .. (i - 1) : _build_ssh_env(steps[j].ssh_key, w).ok
      ELSE 0

\* The process of a call whose key resolved.
Spawned(step, w) ==
    [argv |-> step.argv, cwd |-> step.cwd, key |-> _build_ssh_env(step.ssh_key, w).key]

\* A caller invokes update_repo(url, dest, ...).  On a dest that exists
\* without .git the first query raises GitError before any process.  The
\* calls are made in order: one whose key does not resolve raises GitError
\* before its process is spawned, one whose process fails (fail_at) raises
\* GitCommandError.
UpdateRepo ==
    /\ ~git.called
    /\ \E dest_state \in DestStates, w \in KeyWorlds, ssh_key \in {None, ExplicitKey},
          branch \in {None, "main"},
          recursive \in BOOLEAN, lfs \in BOOLEAN, reset \in Passed, clean \in Passed,
          g \in GitAnswers :
          LET exists  == dest_state # "absent"
              steps   == update_repo_steps("git@host:repo", Dest, branch, recursive, lfs,
                                           ssh_key, reset_of(reset), clean_of(clean), exists, g)
              keyless == KeylessAt(steps, w)
              last    == IF keyless = 0 THEN Len(steps) ELSE keyless - 1
              args    == [dest_state |-> dest_state, world |-> w, ssh_key |-> ssh_key,
                          branch |-> branch, recursive |-> recursive, lfs |-> lfs,
                          reset_passed |-> reset, clean_passed |-> clean,
                          reset |-> reset_of(reset), clean |-> clean_of(clean), answers |-> g]
              run(n)  == [i \in 1 .. n |-> Spawned(steps[i], w)]
          IN  IF dest_state = "directory"
                THEN git' = [called |-> TRUE, args |-> args, cmds |-> <<>>, failed |-> 0,
                             outcome |-> NotARepo, info |-> NoInfo]
                ELSE \E fail_at \in 0 .. last :
                        git' = [called |-> TRUE, args |-> args,
                                cmds |-> IF fail_at = 0 THEN run(last) ELSE run(fail_at),
                                failed |-> fail_at,
                                outcome |-> IF fail_at # 0 THEN "GitCommandError"
                                            ELSE IF keyless # 0
                                              THEN _build_ssh_env(steps[keyless].ssh_key, w).error
                                            ELSE "returned",
                                info |-> IF fail_at = 0 /\ keyless = 0
                                           THEN update_info(Dest, exists, g) ELSE NoInfo]
    /\ UNCHANGED <<externals, svnVars, extVars, handleVars, sparseVars, diffVars, logVars,
                   pathVars>>

GitInit == InitRest /\ wcs = {} /\ externals = NoExternals

GitNext == UpdateRepo

GitSpec == GitInit /\ [][GitNext]_vars

(***************************************************************************)
(* RunSpec: run_cmd calls                                                  *)
(***************************************************************************)
CmdSamples == { <<"svn", "update">>, <<"svn", "status", "--no-ignore">>, <<"git", "pull">> }

\* What a process can answer: an exit code, stdout and stderr.
RunProcs == [code : {0, 1, 2}, out : {"", "o"}, err : { <<>>, <<"E170013">>, <<"is locked">> }]

RunInit == InitRest /\ wcs = {} /\ externals = NoExternals

\* One call of run_cmd.
RunCmd ==
    /\ \E args \in CmdSamples, cwd \in {None, Root}, check \in BOOLEAN, proc \in RunProcs :
          LET r == run_cmd(args, cwd, check, proc)
          IN  call' = [fn |-> "run_cmd", args |-> args, cwd |-> cwd, check |-> check,
                       proc |-> proc, execs |-> r.execs, code |-> r.code, out |-> r.out,
                       err |-> r.err, raised |-> r.raised, error |-> r.error]
    /\ UNCHANGED <<externals, extVars, handleVars, sparseVars, diffVars, logVars,
                   pathVars, gitVars>>

RunNext == RunCmd

RunSpec == RunInit /\ [][RunNext]_vars

(***************************************************************************)
(* SvnSpec: single _svn calls                                              *)
(***************************************************************************)
ArgSamples == { <<"update">>, <<"revert", "-R", ".">>, <<"info", "--show-item", "revision">> }

SvnInit == InitRest /\ wcs = {} /\ externals = NoExternals

\* What the cleanup of a lock retry can answer; cleanup runs it through
\* run_cmd without check and drops the result.
CleanupProcs == { Ok(""), Fail(<<"E155037">>) }

\* The first call of _svn on the handle of the main working copy; `second`
\* is what the command would answer if it were run a second time, `clean`
\* what `svn cleanup` would answer.
SvnCall ==
    /\ call.fn = None
    /\ \E args \in ArgSamples, check \in BOOLEAN, first \in Procs, second \in Procs,
          clean \in CleanupProcs :
          LET r == _svn(Root, args, check, first, second)
          IN  call' = [fn |-> "_svn", args |-> args, check |-> check,
                       first |-> first, second |-> second, clean |-> clean,
                       execs |-> r.execs, code |-> r.code, out |-> r.out, err |-> r.err,
                       raised |-> r.raised, error |-> r.error]
    /\ UNCHANGED <<externals, extVars, handleVars, sparseVars, diffVars, logVars,
                   pathVars, gitVars>>

SvnNext == SvnCall

SvnSpec == SvnInit /\ [][SvnNext]_vars

(***************************************************************************)
(* ExtSpec: external discovery from the main working copy                  *)
(***************************************************************************)
ExtInit ==
    /\ InitRest
    /\ wcs = {}
    /\ \E f \in [WCDirs -> LocalSeqs2] : externals = WithRoot(f)

GetAllExternals ==
    /\ ~ext.done
    /\ LET r == get_all_externals(Root)
       IN  ext' = [root |-> Root, visited |-> r.visited, result |-> r.result,
                   scans |-> r.scans,
                   execs |-> [i \in DOMAIN r.scans |->
                                 Exec(<<"svn">> \o get_externals_args, r.scans[i])],
                   done |-> TRUE]
    /\ UNCHANGED <<externals, svnVars, handleVars, sparseVars, diffVars, logVars,
                   pathVars, gitVars>>

ExtNext == GetAllExternals

ExtSpec == ExtInit /\ [][ExtNext]_vars

(***************************************************************************)
(* Claims about _svn (SvnSpec)                                             *)
(***************************************************************************)
LockSignatures == { "is locked", "E155004", "run 'svn cleanup'" }

HasLockSignature(err) == \E sig \in LockSignatures : Contains(sig, err)

\* C1: in every _svn call, a first run that exits nonzero with a lock signature
\* in its stderr is followed by exactly one non-aggressive cleanup and exactly
\* one re-run of the same command (whatever the re-run answers); a first run
\* that fails with any other stderr is followed by no cleanup and no re-run.
C1_LockRetryExactlyOnce ==
    call.execs # <<>> =>
        LET cmd == Exec(<<"svn">> \o call.args, Root)
            cln == Exec(<<"svn", "cleanup">>, Root)
        IN  /\ (call.first.code # 0 /\ HasLockSignature(call.first.err))
                  => call.execs = <<cmd, cln, cmd>>
            /\ (call.first.code # 0 /\ ~HasLockSignature(call.first.err))
                  => call.execs = <<cmd>>

\* A call whose first run and whose re-run both fail with a lock signature.
C1_Witness ==
    /\ call.first.code # 0 /\ Contains("E155004", call.first.err)
    /\ call.second.code # 0 /\ Contains("is locked", call.second.err)
    /\ Len(call.execs) = 3
    /\ call.code # 0

(***************************************************************************)
(* Claims about external discovery (ExtSpec)                               *)
(***************************************************************************)
\* d declares an external that resolves to the existing directory e.
References(d, e) ==
    \E i \in DOMAIN externals[d] :
        /\ isdir(join(d, externals[d][i]))
        /\ realpath(join(d, externals[d][i])) = e

TimesScanned(d) == Cardinality({i \in DOMAIN ext.scans : realpath(ext.scans[i]) = d})

\* C2: when the main working copy A references a directory B that references
\* A back, get_all_externals returns having read the externals of every
\* directory it discovered exactly once.
C2_CycleScannedOnce ==
    (/\ ext.done
     /\ \E b \in WCDirs \ {Root} : References(Root, b) /\ References(b, Root))
    => \A d \in WCDirs :
          (d = Root \/ \E i \in DOMAIN ext.result : realpath(ext.result[i]) = d)
             => TimesScanned(d) = 1

(***************************************************************************)
(* Claims about the workspace cleaner (CleanSpec)                          *)
(***************************************************************************)
TimesCleaned(d) == Cardinality({i \in DOMAIN cleaned : realpath(cleaned[i]) = d})

\* C9: on a working copy A that references B while B references A back, the
\* cascade of ensure_clean_workspace never enters a repository that an outer
\* frame of the same cascade is still cleaning.
C9_CascadeNeverReenters ==
    (\E b \in WCDirs \ {Root} : References(Root, b) /\ References(b, Root))
    => \A i \in DOMAIN stack : \A j \in DOMAIN stack :
          i < j => realpath(stack[i].path) # realpath(stack[j].path)

\* root A declares B, B declares C, C declares nothing
NestedChain ==
    /\ externals[<<"A">>] = << <<"B">> >>
    /\ externals[<<"A", "B">>] = << <<"C">> >>
    /\ externals[<<"A", "B", "C">>] = <<>>

\* C10: when ensure_clean_workspace has returned on a root with the nested
\* externals root -> B -> C, the root, B and C have each been cleaned exactly
\* once.
C10_EachExternalCleanedOnce ==
    (/\ NestedChain
     /\ op.name = "ensure_clean_workspace" /\ pc = "idle" /\ ret = Returned)
    => \A d \in WCDirs : TimesCleaned(d) = 1

(***************************************************************************)
(* Claims about update_to and collect_update_result (HandleSpec)           *)
(***************************************************************************)
Unset(rev) == rev \in {None, ""}

\* C4: whenever collect_update_result has been called on the handle, it
\* returned a result only if before_update_rev and after_update_rev were both
\* set; with either of them unset it raised its state error ("update_to() not
\* executed") and ran no svn command.
C4_CollectNeedsBothRevisions ==
    op.name = "collect_update_result" =>
        /\ ret.status = "returned"
              => ~Unset(before_update_rev) /\ ~Unset(after_update_rev)
        /\ (Unset(before_update_rev) \/ Unset(after_update_rev))
              => ret = NotUpdated /\ events = <<>>

\* collect_update_result called after an update_to that recorded
\* before_update_rev and then failed.
C4_Witness ==
    /\ op.name = "collect_update_result"
    /\ ~Unset(before_update_rev)
    /\ Unset(after_update_rev)
    /\ ret = NotUpdated

Writes(field) == {i \in DOMAIN events : events[i].ev = "write" /\ events[i].field = field}

CleanCalls == {i \in DOMAIN events : events[i] = CallEvent("ensure_clean_workspace")}

UpdateExecs ==
    {i \in DOMAIN events : events[i].ev = "exec" /\ events[i].argv[2] = "update"}

\* C5: in every update_to call, before_update_rev is written, with the
\* revision the working copy was at, before ensure_clean_workspace is called
\* and before the update command runs; after_update_rev is written only after
\* the update command has run and not when the call fails; and no write of
\* before_update_rev follows a write of after_update_rev.
C5_BeforeThenAfter ==
    op.name = "update_to" =>
        /\ \A i \in CleanCalls \cup UpdateExecs : \E b \in Writes("before_update_rev") : b < i
        /\ (pc # "idle" \/ cleaned # <<>>)
              => /\ Writes("before_update_rev") # {}
                 /\ \A b \in Writes("before_update_rev") :
                       events[b].value = before_update_rev
        /\ (pc \in {"clean", "update"}) => before_update_rev = wcRev
        /\ \A a \in Writes("after_update_rev") :
              /\ \E u \in UpdateExecs : u < a
              /\ \A b \in Writes("before_update_rev") : b < a
              /\ events[a].value = after_update_rev
              /\ after_update_rev = wcRev
        /\ (pc \in {"clean", "update", "updated"} \/ ret.status = "raised")
              => Writes("after_update_rev") = {}

\* An update_to that returned after cleaning the working copy and moving it
\* to a later revision.
C5_Witness ==
    /\ op.name = "update_to"
    /\ pc = "idle"
    /\ ret = Returned
    /\ cleaned # <<>>
    /\ Writes("before_update_rev") # {}
    /\ Writes("after_update_rev") # {}
    /\ before_update_rev # after_update_rev

Count(x, s) == Cardinality({i \in DOMAIN s : s[i] = x})

IsPermutation(s, t) ==
    /\ Len(s) = Len(t)
    /\ \A i \in DOMAIN s : Count(s[i], s) = Count(s[i], t)

\* The change lists of every external, as the log queries returned them.
ExternalLists == Flatten([i \in DOMAIN op.got |-> op.got[i].list])

\* C6: the UpdateResult collect_update_result returns has, as
\* revision_changes, a permutation of the main working copy's change list
\* followed by every external's, in non-decreasing order of numeric revision,
\* and, as from_rev and to_rev, the handle's before_update_rev and
\* after_update_rev, which the call has not changed.
C6_MergedSortedResult ==
    (op.name = "collect_update_result" /\ ret.status = "returned")
    => /\ IsPermutation(ret.revision_changes, op.main \o ExternalLists)
       /\ \A i \in DOMAIN ret.revision_changes : \A j \in DOMAIN ret.revision_changes :
             i < j => _key(ret.revision_changes[i]) <= _key(ret.revision_changes[j])
       /\ ret.from_rev = before_update_rev
       /\ ret.to_rev = after_update_rev

(***************************************************************************)
(* Claims about ensure_sparse_workspace (SparseSpec)                       *)
(***************************************************************************)
\* The indices in sp.calls of the checkouts and of the updates of project i.
Checkouts(i) == {k \in DOMAIN sp.calls : sp.calls[k].proj = i /\ sp.calls[k].args[1] = "checkout"}

Updates(i) == {k \in DOMAIN sp.calls : sp.calls[k].proj = i /\ sp.calls[k].args[1] = "update"}

\* The relative paths of the rules of project i, as declared.
RelPaths(i) ==
    [n \in DOMAIN profile.projects[i].paths |-> strip(profile.projects[i].paths[n].path)]

\* p names a directory below the project root and q a path inside it.
Ancestor(p, q) ==
    /\ p # <<>>
    /\ Len(q) > Len(p) + 1
    /\ SubSeq(q, 1, Len(p)) = p
    /\ q[Len(p) + 1] = "/"

Completed(i) == i <= sp.done

\* C8: for every project the loop has reached, one checkout of its URL into
\* its path at its declared root depth has been issued if its path was not a
\* working copy, and none if it was; every update issued for it is the update
\* of one of its rules, and once the project is gone through there is exactly
\* one update per rule.  A profile of one project without rules on a
\* workspace without working copies has, on return, issued one call: the
\* checkout.
C8_CheckoutIffNotWorkingCopy ==
    /\ \A i \in DOMAIN sp.was_wc :
          LET proj == profile.projects[i]
              path == join(Root, <<proj.root_path>>)
          IN  /\ Cardinality(Checkouts(i)) = IF sp.was_wc[i] THEN 0 ELSE 1
              /\ \A k \in Checkouts(i) :
                    /\ sp.calls[k].args = <<"checkout", proj.repo_url, path_str(path),
                                            "--depth", get_depth(proj.root_depth)>>
                    /\ \A j \in Updates(i) : k < j
              /\ Cardinality(Updates(i)) <= Len(proj.paths)
              /\ Completed(i) =>
                    IsPermutation([n \in 1 .. Cardinality(Updates(i)) |->
                                       sp.calls[CHOOSE k \in Updates(i) :
                                           Cardinality({j \in Updates(i) : j <= k}) = n].rel],
                                  RelPaths(i))
    /\ (/\ sp.ret = Returned
        /\ Len(profile.projects) = 1
        /\ profile.projects[1].paths = <<>>
        /\ sp.was_wc = <<FALSE>>)
          => Len(sp.calls) = 1 /\ Checkouts(1) = {1}

\* A profile of two projects on the same path has been applied: the first
\* was checked out and had a rule expanded, the second found the working copy.
C8_Witness ==
    /\ sp.ret = Returned
    /\ sp.was_wc = <<FALSE, TRUE>>
    /\ Cardinality(Checkouts(1)) = 1
    /\ Cardinality(Updates(1)) = 1
    /\ Checkouts(2) = {}

(***************************************************************************)
(* Claims about get_diff (DiffSpec)                                        *)
(***************************************************************************)
\* C7: a get_diff call that returned, with cap N >= 0 on a diff of M lines,
\* returned, when M > N, text of N + 1 lines: the first N lines of the diff,
\* then one marker line that states M - N, with no line after it; and when
\* M <= N the diff as svn printed it.
C7_DiffCap ==
    (diff.called /\ ~diff.raised) =>
        LET lines == splitlines(diff.out)
            got   == splitlines(diff.result)
            M     == Len(lines)
            N     == diff.max_lines
        IN  IF M > N
              THEN /\ Len(got) = N + 1
                   /\ \A i \in 1 .. N : got[i] = lines[i]
                   /\ got[N + 1] = truncated_marker(M - N)
                   /\ diff.result[Len(diff.result)] = ")"
              ELSE diff.result = diff.out

\* A diff of three lines cut at two.
C7_Witness ==
    /\ diff.called /\ ~diff.raised
    /\ Len(splitlines(diff.out)) = diff.max_lines + 1
    /\ diff.max_lines = 2
    /\ diff.result # diff.out

(***************************************************************************)
(* More claims about external discovery (ExtSpec)                          *)
(***************************************************************************)
\* C11: the list get_all_externals returns holds no path twice and no path
\* that is the main working copy itself, whatever the externals declare.
C11_ResultDistinctWithoutRoot ==
    ext.done =>
        /\ \A i \in DOMAIN ext.result : \A j \in DOMAIN ext.result :
              i # j => ext.result[i] # ext.result[j]
        /\ \A i \in DOMAIN ext.result : realpath(ext.result[i]) # Root

(***************************************************************************)
(* More claims about _svn (SvnSpec)                                        *)
(***************************************************************************)
\* C12: a strict _svn call whose first run fails with a lock signature and
\* whose re-run after cleanup fails too raises an error that differs from
\* the error the same command raises when it fails without a lock signature.
C12_LockExhaustedDistinct ==
    (/\ call.execs # <<>> /\ call.check
     /\ call.first.code # 0 /\ HasLockSignature(call.first.err)
     /\ call.second.code # 0)
    => /\ call.raised
       /\ \A p \in Procs :
             (p.code # 0 /\ ~HasLockSignature(p.err))
                => _svn(Root, call.args, TRUE, p, call.second).error # call.error

(***************************************************************************)
(* Claims about get_revision_list (LogSpec)                                *)
(***************************************************************************)
RevisionsOf(changes) == [i \in DOMAIN changes |-> changes[i].revision]

\* C13: get_revision_list(from, to) with from given and not after to returns
\* the revisions r of the path's history with from < r <= to, oldest first.
C13_FromExcludedToIncluded ==
    (/\ revlist.called /\ ~revlist.raised
     /\ revlist.from_rev \in Revs
     /\ IntOf[revlist.from_rev] <= IntOf[revlist.to_rev])
    => RevisionsOf(revlist.value)
         = SelectSeq(RevOrder, LAMBDA r : /\ r \in revlist.history
                                         /\ IntOf[revlist.from_rev] < IntOf[r]
                                         /\ IntOf[r] <= IntOf[revlist.to_rev])

\* C14: get_revision_list(None, to) returns every revision of the path's
\* history up to and including to.
C14_FromAbsentMeansFromBeginning ==
    (/\ revlist.called /\ ~revlist.raised
     /\ revlist.from_rev \in {None, ""})
    => RevisionsOf(revlist.value)
         = SelectSeq(RevOrder, LAMBDA r : /\ r \in revlist.history
                                         /\ IntOf[r] <= IntOf[revlist.to_rev])

(***************************************************************************)
(* More claims about collect_update_result (HandleSpec)                    *)
(***************************************************************************)
\* C15: when collect_update_result, with externals disabled and its log
\* query answered, returns after an update_to that moved the main working
\* copy from revision b to a revision a not before b, its revision_changes
\* are the revisions r of the main path's history with b < r <= a, oldest
\* first: none when b = a.
C15_OnlyPulledRevisions ==
    (/\ op.name = "collect_update_result" /\ ret.status = "returned"
     /\ ~op.include_externals
     /\ op.mainlog.run = OkRun
     /\ IntOf[before_update_rev] <= IntOf[after_update_rev])
    => RevisionsOf(ret.revision_changes)
         = SelectSeq(RevOrder, LAMBDA r : /\ r \in op.mainlog.history
                                         /\ IntOf[before_update_rev] < IntOf[r]
                                         /\ IntOf[r] <= IntOf[after_update_rev])

(***************************************************************************)
(* Claims about the order of revision_changes (SortSpec)                   *)
(***************************************************************************)
Numeric(c) == c.revision \in DOMAIN IntOf

\* C16 as stated: in revision_changes every change whose revision is not a
\* number stands before every change whose revision is a number, 0 included.
C16_UnparsedBeforeAllNumbers ==
    (op.name = "sort_changes" /\ ret.status = "returned") =>
        \A i \in DOMAIN ret.revision_changes : \A j \in DOMAIN ret.revision_changes :
            (~Numeric(ret.revision_changes[i]) /\ Numeric(ret.revision_changes[j])) => i < j

\* The changes in the order they were merged: main, then the external's.
Merged == op.main \o ExternalLists

\* C16: in revision_changes every change whose revision is not a number
\* stands before every change whose revision is a number above 0; changes
\* whose revision is 0 or not a number stand first, in the order they were
\* merged in.
C16_UnparsedSortAsZero ==
    (op.name = "sort_changes" /\ ret.status = "returned") =>
        LET res  == ret.revision_changes
            low  == SelectSeq(Merged, LAMBDA c : ~Numeric(c) \/ IntOf[c.revision] = 0)
        IN  /\ IsPermutation(res, Merged)
            /\ \A i \in DOMAIN res : \A j \in DOMAIN res :
                  (~Numeric(res[i]) /\ Numeric(res[j]) /\ IntOf[res[j].revision] > 0) => i < j
            /\ SubSeq(res, 1, Len(low)) = low

\* A list where revision 0 was merged ahead of an unparsed revision and
\* behind a revision above 0.
C16_Witness ==
    /\ op.name = "sort_changes" /\ ret.status = "returned"
    /\ \E i \in DOMAIN Merged : \E j \in DOMAIN Merged : \E k \in DOMAIN Merged :
          /\ i < j /\ j < k
          /\ Merged[i].revision = "5" /\ Merged[j].revision = "0" /\ ~Numeric(Merged[k])

(***************************************************************************)
(* More claims about ensure_sparse_workspace (SparseSpec)                  *)
(***************************************************************************)
\* The processes of one logged _svn call are the command itself and, around
\* a lock retry, `svn cleanup`.
OnlyItsCommand(c) ==
    \A e \in DOMAIN c.execs :
        c.execs[e].argv \in { <<"svn">> \o c.args, <<"svn", "cleanup">> }

\* C17: when a checkout or update of ensure_sparse_workspace has failed, the
\* call has ended by raising the error; the failed command is the last one
\* issued; the commands before it are the checkouts and updates of the
\* projects up to the failing one, each run as declared and none of them
\* undone: the paths they checked out are still working copies; and every
\* project before the failing one has had all its rules expanded.
C17_FailureStopsWithoutRollback ==
    \A k \in DOMAIN sp.calls :
        sp.calls[k].raised =>
            /\ k = Len(sp.calls)
            /\ sp.pc = "idle" /\ sp.ret = SvnFailed
            /\ \A j \in DOMAIN sp.calls :
                  /\ sp.calls[j].args[1] \in {"checkout", "update"}
                  /\ OnlyItsCommand(sp.calls[j])
                  /\ sp.calls[j].proj <= sp.calls[k].proj
                  /\ (j < k /\ sp.calls[j].args[1] = "checkout") => sp.calls[j].cwd \in wcs
            /\ \A i \in 1 .. (sp.calls[k].proj - 1) :
                  Cardinality(Updates(i)) = Len(profile.projects[i].paths)
            /\ sp.done = sp.calls[k].proj - 1

\* The second project of a profile fails in an update after the first
\* project was checked out and expanded and after its own first update.
C17_Witness ==
    /\ sp.ret = SvnFailed
    /\ Len(sp.calls) >= 4
    /\ sp.calls[Len(sp.calls)].raised
    /\ sp.calls[Len(sp.calls)].proj = 2
    /\ sp.calls[Len(sp.calls)].args[1] = "update"
    /\ Cardinality(Updates(2)) = 2
    /\ Checkouts(1) # {} /\ Updates(1) # {}

\* Project i of the profile lacks repo_url or root_path.
Incomplete(i) ==
    profile.projects[i].repo_url = "" \/ profile.projects[i].root_path = ""

\* Project i has been fully applied: checked out unless its path was a
\* working copy, and every rule of it expanded by one update.
Applied(i) ==
    /\ Completed(i)
    /\ i \in DOMAIN sp.was_wc
    /\ Cardinality(Checkouts(i)) = IF sp.was_wc[i] THEN 0 ELSE 1
    /\ Cardinality(Updates(i)) = Len(profile.projects[i].paths)

\* C34: a profile whose "projects" is not a map makes
\* ensure_sparse_workspace raise before any command; a project without
\* repo_url or root_path makes it raise when the loop reaches that project:
\* no command has been issued for that project, no command has failed, and
\* every project before it has been fully applied; no command is ever issued
\* for a project lacking one of the two fields.
C34_ValidationWhenReached ==
    /\ (sp.pc # "new" /\ ~profile.valid) => (sp.ret = BadProfile /\ sp.calls = <<>>)
    /\ sp.ret = BadProfile => (~profile.valid /\ sp.calls = <<>> /\ sp.pc = "idle")
    /\ \A k \in DOMAIN sp.calls : ~Incomplete(sp.calls[k].proj)
    /\ sp.ret = BadProject =>
          /\ sp.pc = "idle" /\ sp.rest # <<>>
          /\ Incomplete(CurIndex)
          /\ \A i \in 1 .. (CurIndex - 1) : ~Incomplete(i) /\ Applied(i)
          /\ Checkouts(CurIndex) = {} /\ Updates(CurIndex) = {}
          /\ \A k \in DOMAIN sp.calls : sp.calls[k].proj < CurIndex /\ ~sp.calls[k].raised
    /\ (sp.pc = "idle" /\ sp.ret = Returned) =>
          \A i \in DOMAIN profile.projects : ~Incomplete(i)

\* The second project of a profile lacks root_path: the call has raised
\* after the first project was checked out and its rule expanded.
C34_Witness ==
    /\ sp.ret = BadProject
    /\ CurIndex = 2 /\ Cur.root_path = "" /\ Cur.repo_url # ""
    /\ Checkouts(1) # {} /\ Updates(1) # {}
    /\ Applied(1)

(***************************************************************************)
(* Claims about update_paths_to_revision (PathsSpec)                       *)
(***************************************************************************)
\* The _svn calls made for rule i of the input.
RuleCalls(i) == {k \in DOMAIN up.calls : up.calls[k].rule = i}

\* C35: update_paths_to_revision goes through the rules in input order: the
\* calls it has made are for rules of increasing position; a rule lacking
\* its path or its revision has no call and does not end the operation;
\* every other rule gone through has exactly one call, the update of its
\* path to its revision, run in the working copy; a failed call is the last
\* one, ends the operation by raising with the rule it failed on not gone
\* through, and the calls before it have succeeded; the operation raises
\* only so, or at the start of update_paths_from_json; and
\* update_paths_from_json given a "paths" that is not a list has raised
\* without any call.
C35_RulesInOrderUntilFailure ==
    /\ \A j, k \in DOMAIN up.calls : j < k => up.calls[j].rule < up.calls[k].rule
    /\ \A k \in DOMAIN up.calls :
          LET c == up.calls[k]
          IN  /\ c.rule \in DOMAIN up.rules
              /\ ~illegal(up.rules[c.rule])
              /\ c.args = <<"update", up.rules[c.rule].path, "-r",
                            up.rules[c.rule].revision, "--depth=infinity">>
              /\ c.cwd = Root
              /\ OnlyItsCommand(c)
              /\ c.raised =>
                    /\ k = Len(up.calls)
                    /\ up.pc = "idle" /\ up.ret = SvnFailed
                    /\ c.rule = up.done + 1
              /\ ~c.raised => c.rule <= up.done
    /\ \A i \in 1 .. up.done :
          Cardinality(RuleCalls(i)) = IF illegal(up.rules[i]) THEN 0 ELSE 1
    /\ \A i \in (up.done + 2) .. Len(up.rules) : RuleCalls(i) = {}
    /\ up.ret = Returned => up.done = Len(up.rules)
    /\ up.ret = SvnFailed => (up.calls # <<>> /\ up.calls[Len(up.calls)].raised)
    /\ up.ret \in {BadPaths, Unreadable} =>
          (up.via = "update_paths_from_json" /\ up.calls = <<>> /\ up.done = 0)
    /\ (up.via = "update_paths_from_json" /\ up.json.readable /\ up.json.is = "other")
          => (up.pc = "idle" /\ up.ret = BadPaths /\ up.calls = <<>>)

\* Three rules from a file: the first updated, the second, without a
\* revision, skipped, the third failed.
C35_Witness ==
    /\ up.via = "update_paths_from_json"
    /\ Len(up.rules) = 3 /\ illegal(up.rules[2])
    /\ up.ret = SvnFailed /\ up.done = 2
    /\ Len(up.calls) = 2
    /\ ~up.calls[1].raised /\ up.calls[1].rule = 1
    /\ up.calls[2].raised /\ up.calls[2].rule = 3

(***************************************************************************)
(* Claims about checkout (CheckoutSpec)                                    *)
(***************************************************************************)
\* C36: a checkout called on a path that is a working copy has run no
\* process and has not raised, whatever url and revision it was given, and
\* the working copy is as it was: same URL, same revision; a checkout that
\* follows a successful one is such a call.
C36_CheckoutOnWorkingCopyDoesNothing ==
    cko.n > 0 =>
        /\ cko.was_wc =>
              /\ cko.execs = <<>> /\ ~cko.raised
              /\ wcs = cko.seen.wcs /\ wcUrl = cko.seen.url /\ wcRev = cko.seen.rev
        /\ cko.after_success => (cko.was_wc /\ cko.execs = <<>>)

\* A second checkout, of another URL at another revision, after a
\* successful first one.
C36_Witness ==
    /\ cko.n = 2 /\ cko.after_success
    /\ cko.url # wcUrl /\ cko.revision = "6" /\ wcRev # "6"
    /\ cko.execs = <<>> /\ ~cko.raised

(***************************************************************************)
(* More claims about collect_update_result (HandleSpec)                    *)
(***************************************************************************)
\* The discovery commands among the processes of the operation.
Discoveries == { i \in DOMAIN events : events[i].ev = "exec" /\ events[i].argv[2] = "propget" }

\* C37: in the result collect_update_result returns, every external that
\* discovery listed has its changes: each change of each external's list is
\* in revision_changes, whose length is the length of the main list plus the
\* lengths of all the externals' lists; and a call without external
\* aggregation has run no discovery command, queried no external, and
\* returns the main list's changes only.
C37_EveryExternalContributes ==
    (op.name = "collect_update_result" /\ ret.status = "returned")
    => /\ Len(ret.revision_changes) = Len(op.main) + Len(ExternalLists)
       /\ \A i \in DOMAIN op.got : \A n \in DOMAIN op.got[i].list :
             Count(op.got[i].list[n], ret.revision_changes) >= 1
       /\ op.include_externals =>
             [i \in DOMAIN op.got |-> op.got[i].path] = get_all_externals(Root).result
       /\ ~op.include_externals =>
             /\ Discoveries = {}
             /\ op.got = <<>>
             /\ IsPermutation(ret.revision_changes, op.main)

(***************************************************************************)
(* Claims about failures of svn commands (HandleSpec)                      *)
(***************************************************************************)
\* C18: whenever the revert or the status of a frame of ensure_clean_workspace
\* has failed, and whenever the time-range log query of
\* collect_update_result has failed, the operation has ended by raising an
\* error.
C18_FailuresSurface ==
    /\ (lastClean # <<>> /\ lastClean.failed)
          => (pc = "idle" /\ ret.status = "raised")
    /\ (op.name = "collect_update_result" /\ op.mainlog.run = FailRun)
          => ret.status = "raised"

(***************************************************************************)
(* Claims about git update_repo (GitSpec)                                  *)
(***************************************************************************)
MainReset == <<"git", "reset", "--hard", "HEAD">>
SubReset  == <<"git", "submodule", "foreach", "--recursive", "git reset --hard HEAD">>
MainClean == <<"git", "clean", "-fd">>
SubClean  == <<"git", "submodule", "foreach", "--recursive", "git clean -fd">>

\* The commands of the processes the call has run, in order.
Argvs == [i \in DOMAIN git.cmds |-> git.cmds[i].argv]

\* The call has come to the fetch, which follows the opt-in block.
Fetched == Count(<<"git", "fetch", "--all">>, Argvs) > 0

\* C19: in update_repo, the hard resets (of the main tree and, when
\* recursive, of the submodules) are run only on an existing dest and only
\* when reset is true, the force-cleans only on an existing dest and only
\* when clean is true; and a call that has come past them on an existing
\* dest has run each exactly once for its flag, whatever the other flag is.
C19_ResetAndCleanIndependent ==
    git.called =>
        /\ Count(MainReset, Argvs) > 0 => (git.args.dest_state = "repository" /\ git.args.reset)
        /\ Count(SubReset, Argvs) > 0
              => (git.args.dest_state = "repository" /\ git.args.reset /\ git.args.recursive)
        /\ Count(MainClean, Argvs) > 0 => (git.args.dest_state = "repository" /\ git.args.clean)
        /\ Count(SubClean, Argvs) > 0
              => (git.args.dest_state = "repository" /\ git.args.clean /\ git.args.recursive)
        /\ Fetched =>
              /\ Count(MainReset, Argvs) = IF git.args.reset THEN 1 ELSE 0
              /\ Count(SubReset, Argvs) = IF git.args.reset /\ git.args.recursive THEN 1 ELSE 0
              /\ Count(MainClean, Argvs) = IF git.args.clean THEN 1 ELSE 0
              /\ Count(SubClean, Argvs) = IF git.args.clean /\ git.args.recursive THEN 1 ELSE 0

\* A recursive update that returned with clean asked for and reset not.
C19_Witness ==
    /\ git.called /\ git.outcome = "returned"
    /\ git.args.dest_state = "repository"
    /\ git.args.recursive /\ git.args.clean /\ ~git.args.reset
    /\ Count(MainClean, Argvs) = 1 /\ Count(SubClean, Argvs) = 1
    /\ Count(MainReset, Argvs) = 0

\* C20: an update_repo call that passes neither reset nor clean runs no hard
\* reset and no force-clean, on the main tree or on the submodules.
C20_NoDestructiveStepByDefault ==
    (/\ git.called
     /\ git.args.reset_passed = "default" /\ git.args.clean_passed = "default")
    => \A c \in {MainReset, SubReset, MainClean, SubClean} : Count(c, Argvs) = 0

\* The commands that change dest, in the order update_repo names them.
UpdateOrder ==
    << MainReset, SubReset, MainClean, SubClean,
       <<"git", "checkout", "main">>,
       <<"git", "fetch", "--all">>,
       <<"git", "pull">>,
       <<"git", "submodule", "sync", "--recursive">>,
       <<"git", "submodule", "update", "--init", "--recursive">>,
       <<"git", "lfs", "install">>,
       <<"git", "lfs", "fetch", "--all">>,
       <<"git", "lfs", "pull">>,
       <<"git", "submodule", "foreach", "--recursive", "git lfs pull">> >>

Modifying(i) == \E k \in DOMAIN UpdateOrder : UpdateOrder[k] = Argvs[i]
Rank(i) == CHOOSE k \in DOMAIN UpdateOrder : UpdateOrder[k] = Argvs[i]

\* C21: on an existing dest the commands of update_repo that change it are
\* run in the order reset, clean, checkout, fetch, pull, submodule sync,
\* submodule update, LFS of the main tree, LFS of the submodules, each at
\* most once and each selected by its argument; a command that fails is the
\* last one run and the call ends in an error, and a call that returns has
\* run every selected command.
C21_UpdateOrder ==
    (git.called /\ git.args.dest_state = "repository") =>
        /\ \A i, j \in DOMAIN git.cmds :
              (i < j /\ Modifying(i) /\ Modifying(j)) => Rank(i) < Rank(j)
        /\ git.failed # 0 => (git.failed = Len(git.cmds) /\ git.outcome = "GitCommandError")
        /\ git.outcome = "returned" =>
              /\ git.failed = 0
              /\ Count(UpdateOrder[5], Argvs) = IF git.args.branch = None THEN 0 ELSE 1
              /\ Count(UpdateOrder[6], Argvs) = 1 /\ Count(UpdateOrder[7], Argvs) = 1
              /\ \A k \in {8, 9} :
                    Count(UpdateOrder[k], Argvs) = IF git.args.recursive THEN 1 ELSE 0
              /\ \A k \in {10, 11, 12, 13} :
                    Count(UpdateOrder[k], Argvs) = IF git.args.lfs THEN 1 ELSE 0

\* A full update whose pull failed: the submodule and LFS commands that
\* were selected have not run.
C21_Witness ==
    /\ git.called /\ git.args.dest_state = "repository"
    /\ git.args.reset /\ git.args.clean /\ git.args.recursive /\ git.args.lfs
    /\ git.args.branch = "main"
    /\ git.outcome = "GitCommandError"
    /\ Argvs[Len(Argvs)] = <<"git", "pull">>
    /\ Count(UpdateOrder[8], Argvs) = 0 /\ Count(UpdateOrder[10], Argvs) = 0

\* The two queries of a snapshot.
Snapshot == { <<"git", "rev-parse", "HEAD">>, <<"git", "submodule", "status", "--recursive">> }

\* C22: when dest does not exist update_repo runs, besides the two queries
\* of the snapshot taken afterwards, only the clone and (when lfs) the LFS
\* install, fetch and pull: no reset, clean, checkout, fetch, pull or
\* submodule sync/update/foreach; and the result it returns has repo.from
\* null, no commits and no submodules.
C22_AbsentDestOnlyClones ==
    (git.called /\ git.args.dest_state = "absent") =>
        /\ \A i \in DOMAIN git.cmds :
              \/ Argvs[i][2] = "clone" /\ i = 1
              \/ git.args.lfs /\ Argvs[i] \in {UpdateOrder[10], UpdateOrder[11], UpdateOrder[12]}
              \/ Argvs[i] \in Snapshot /\ i > 1
        /\ git.outcome = "returned" =>
              /\ git.info.repo.from = None
              /\ git.info.repo.commits = <<>>
              /\ git.info.submodules = <<>>

\* A recursive clone with LFS that returned, of a repository with submodules.
C22_Witness ==
    /\ git.called /\ git.args.dest_state = "absent" /\ git.outcome = "returned"
    /\ git.args.lfs /\ git.args.recursive
    /\ git.args.answers.sub_after # <<>>
    /\ Argvs[1][2] = "clone" /\ Count(UpdateOrder[12], Argvs) = 1
    /\ git.info.repo.to = git.args.answers.head_after

SubPaths == { "p", "q" }

\* The commit a snapshot holds for a submodule path, None if it holds none.
SnapBefore(p) == dict_get(parse_states(git.args.answers.sub_before), p)
SnapAfter(p)  == dict_get(parse_states(git.args.answers.sub_after), p)

Entries(p) == { i \in DOMAIN git.info.submodules : git.info.submodules[i].path = p }

LogOf(path, a, b) ==
    [argv |-> <<"git", "log", a \o ".." \o b, "--pretty=format:%H|%an|%ae|%ad|%s", "--date=iso">>,
     cwd |-> path]

\* C23: an update_repo of an existing dest that returns has queried the
\* head and the submodule status before every command that changes dest and
\* again after all of them; its result names the two heads, and it has one
\* entry for a submodule path if and only if both snapshots hold a commit
\* for the path and the two differ, with these commits as from and to and
\* the parsed log of from..to; other paths have no entry.
C23_ChangedSubmodulesListed ==
    (git.called /\ git.outcome = "returned" /\ git.args.dest_state = "repository") =>
        /\ Argvs[1] = <<"git", "rev-parse", "HEAD">>
        /\ Argvs[2] = <<"git", "submodule", "status", "--recursive">>
        /\ \E k \in DOMAIN Argvs :
              /\ Argvs[k] = <<"git", "rev-parse", "HEAD">>
              /\ Argvs[k + 1] = <<"git", "submodule", "status", "--recursive">>
              /\ \A i \in DOMAIN Argvs : Modifying(i) => (2 < i /\ i < k)
        /\ git.info.repo.from = git.args.answers.head_before
        /\ git.info.repo.to = git.args.answers.head_after
        /\ \A p \in SubPaths :
              IF SnapBefore(p) # None /\ SnapAfter(p) # None /\ SnapBefore(p) # SnapAfter(p)
                THEN /\ Cardinality(Entries(p)) = 1
                     /\ \A i \in Entries(p) :
                           /\ git.info.submodules[i].from = SnapBefore(p)
                           /\ git.info.submodules[i].to = SnapAfter(p)
                           /\ git.info.submodules[i].commits
                                 = commits_between(SnapBefore(p), SnapAfter(p))
                           /\ \E c \in DOMAIN git.cmds :
                                 [argv |-> git.cmds[c].argv, cwd |-> git.cmds[c].cwd]
                                    = LogOf(Dest \o "/" \o p, SnapBefore(p), SnapAfter(p))
                ELSE Entries(p) = {}

\* An update after which one submodule is at another commit and one is not.
C23_Witness ==
    /\ git.called /\ git.outcome = "returned" /\ git.args.dest_state = "repository"
    /\ SnapBefore("p") = "s1" /\ SnapAfter("p") = "s2"
    /\ SnapBefore("q") = "t1" /\ SnapAfter("q") = "t1"
    /\ Len(git.info.submodules) = 1
    /\ git.info.submodules[1].path = "p"

\* No key file resolves for a call without the ssh_key argument.
NoKeyResolves == git.args.ssh_key = None /\ get_default_ssh_key(git.args.world) = NoKeyFound

\* C24: when update_repo is called without ssh_key and neither PXTA_SSH_KEY
\* nor a default location names an existing file, the call fails with a
\* GitError and no git process has been run; and in every call each process
\* that has run was given a key file that exists.
C24_NoProcessWithoutKey ==
    git.called =>
        /\ NoKeyResolves => (git.cmds = <<>> /\ git.outcome \in {NoKeyFound, NotARepo})
        /\ \A i \in DOMAIN git.cmds : git.cmds[i].key \in git.args.world.files

\* PXTA_SSH_KEY names a file that does not exist and there is no default key.
C24_Witness ==
    /\ git.called /\ NoKeyResolves
    /\ git.args.world.env_key = EnvKey
    /\ git.args.dest_state = "repository"
    /\ git.outcome = NoKeyFound /\ git.cmds = <<>>

\* C25: an update_repo given an ssh_key that exists runs every git process
\* with that key and does not fail for a missing key, whatever PXTA_SSH_KEY
\* and the default locations hold.
C25_ExplicitKeyForEveryCommand ==
    (/\ git.called
     /\ git.args.ssh_key = ExplicitKey /\ ExplicitKey \in git.args.world.files)
    => /\ git.outcome \notin {NoKeyFound, KeyMissing}
       /\ \A i \in DOMAIN git.cmds : git.cmds[i].key = ExplicitKey

\* C26: a run_cmd call runs exactly one process, the command it was given
\* in the directory it was given, whatever the process answers; it raises
\* if and only if check is true and the exit code is not zero, the error
\* carrying the command and the captured stderr; otherwise it returns the
\* exit code, stdout and stderr of the process.
C26_RunCmdOnceStrictOnlyIfChecked ==
    call.fn = "run_cmd" =>
        /\ call.execs = <<Exec(call.args, call.cwd)>>
        /\ call.raised <=> (call.check /\ call.proc.code # 0)
        /\ call.raised => (/\ call.error.exception = "VCSException"
                           /\ call.error.cmd = call.args
                           /\ call.error.err = call.proc.err)
        /\ ~call.raised => (/\ call.error = NoError
                            /\ <<call.code, call.out, call.err>>
                                  = <<call.proc.code, call.proc.out, call.proc.err>>)

\* A lock failure answered to a call that is not strict: returned as it is,
\* after one process.
C26_Witness ==
    /\ call.fn = "run_cmd" /\ ~call.check
    /\ call.proc.code = 1 /\ call.proc.err = <<"is locked">>
    /\ ~call.raised /\ call.code = 1 /\ Len(call.execs) = 1

(***************************************************************************)
(* Claims about the order of cleaning and updating (WorkSpec)              *)
(***************************************************************************)
\* The steps of the frame that has just cleaned its path, by kind.
Reverts  == { i \in DOMAIN lastClean.trace :
                lastClean.trace[i].what = <<"svn", "revert", "-R", ".">> }
Statuses == { i \in DOMAIN lastClean.trace :
                lastClean.trace[i].what = <<"svn", "status", "--no-ignore">> }
Removals == { i \in DOMAIN lastClean.trace : lastClean.trace[i].step = "remove" }

\* The update and switch commands the operation has run.
MoveExecs ==
    { i \in DOMAIN events :
        events[i].ev = "exec" /\ events[i].argv[2] \in {"update", "switch"} }

\* C27: a frame of ensure_clean_workspace runs the recursive revert, then
\* the status, then the removals of unversioned entries, then the cleanup,
\* all in its own path, and only then are frames for its externals
\* entered; and update_to and switch_to run their update or switch command
\* only after the ensure_clean_workspace they called has returned.
C27_CleanOrderThenUpdate ==
    /\ lastClean # <<>> =>
          LET t == lastClean.trace
          IN  /\ Reverts # {} /\ Statuses # {}
              /\ \A r \in Reverts : \A s \in Statuses : r < s
              /\ \A s \in Statuses : \A m \in Removals : s < m
              /\ t[Len(t)] = [step |-> "exec", what |-> <<"svn", "cleanup">>,
                              at |-> lastClean.path]
              /\ \A i \in Reverts \cup Statuses \cup Removals : i < Len(t)
              /\ \A i \in DOMAIN t : t[i].step = "exec" => t[i].at = lastClean.path
    /\ \A k \in DOMAIN stack :
          /\ ~stack[k].entered => (stack[k].todo = <<>> /\ k = Len(stack))
          /\ k > 1 => (stack[k].caller = "clean_externals" /\ stack[k - 1].entered)
    /\ pc \in {"update", "switch"} => (stack = <<>> /\ cleaned # <<>> /\ cleaned[1] = Root)
    /\ MoveExecs # {} =>
          /\ pc # "clean" /\ stack = <<>>
          /\ cleaned # <<>> /\ cleaned[1] = Root
          /\ \A i \in MoveExecs : \E c \in CleanCalls : c < i

\* A switch_to that has cleaned the main working copy, removing two
\* unversioned entries, and is about to cascade into its externals.
C27_Witness ==
    /\ op.name = "switch_to" /\ pc = "clean"
    /\ lastClean # <<>> /\ lastClean.path = Root
    /\ Cardinality(Removals) = 2
    /\ Len(stack) = 1 /\ stack[1].entered /\ stack[1].todo # <<>>

(***************************************************************************)
(* Claims about the property query of get_externals (ExtSpec)              *)
(***************************************************************************)
\* C28: every property query get_all_externals has run is a propget of
\* svn:externals on the scanned path alone, without the recursive option.
C28_PropgetNotRecursive ==
    ext.done =>
        \A i \in DOMAIN ext.execs :
            /\ ext.execs[i].argv[2] = "propget"
            /\ \A k \in DOMAIN ext.execs[i].argv : ext.execs[i].argv[k] \notin {"-R", "--recursive"}

(***************************************************************************)
(* Claims about failed update_to calls (HandleSpec)                        *)
(***************************************************************************)
\* C29: when an update_to call that has recorded before_update_rev ends in
\* an error, after_update_rev is not set: no value recorded by an earlier
\* call is left paired with the before_update_rev of the failed one.
C29_PairFromOneCall ==
    (/\ op.name = "update_to" /\ pc = "idle" /\ ret = SvnFailed
     /\ Writes("before_update_rev") # {})
    => Unset(after_update_rev)

\* An update_to call that has just failed while reading the current
\* revision at its start.
FailedAtStart == pc = "idle" /\ pc' = "idle" /\ op'.name = "update_to"

\* The events of the next state that are a process of the given svn
\* subcommands.
NextExecs(subcommands) ==
    { i \in DOMAIN events' : events'[i].ev = "exec" /\ events'[i].argv[2] \in subcommands }

\* C30 as stated: an update_to call that fails while reading the current
\* revision at its start raises, leaves before_update_rev and
\* after_update_rev as they were, and has run no revert, cleanup or update
\* command.
C30_FailedStartRunsNoCleanup ==
    [][FailedAtStart =>
          /\ ret' = SvnFailed
          /\ before_update_rev' = before_update_rev
          /\ after_update_rev' = after_update_rev
          /\ NextExecs({"revert", "cleanup", "update"}) = {}]_vars

\* C30, amended: an update_to call that fails while reading the current
\* revision at its start raises, leaves before_update_rev and
\* after_update_rev as they were, has not entered ensure_clean_workspace and
\* has run no revert, status or update command; every process it has run is
\* the revision query or the one cleanup of the query's lock retry, which is
\* preceded and followed by the query.
C30_FailedStartKeepsRevisions ==
    [][FailedAtStart =>
          /\ ret' = SvnFailed
          /\ before_update_rev' = before_update_rev
          /\ after_update_rev' = after_update_rev
          /\ stack' = <<>> /\ cleaned' = <<>>
          /\ NextExecs({"revert", "status", "update"}) = {}
          /\ \A i \in DOMAIN events' :
                /\ events'[i].ev = "exec"
                /\ events'[i].argv[2] \in {"info", "cleanup"}
          /\ Cardinality(NextExecs({"cleanup"})) <= 1
          /\ \A i \in NextExecs({"cleanup"}) :
                /\ i - 1 \in NextExecs({"info"})
                /\ i + 1 \in NextExecs({"info"})]_vars

\* After an update_to that recorded both revisions, another update_to has
\* failed at its start: both revisions are still set.
C30_Witness ==
    /\ op.name = "update_to" /\ pc = "idle" /\ ret = SvnFailed
    /\ Writes("before_update_rev") = {}
    /\ ~Unset(before_update_rev) /\ ~Unset(after_update_rev)

(***************************************************************************)
(* Claims about switch_to (WorkSpec)                                       *)
(***************************************************************************)
\* A step that is a call of switch_to.
SwitchCalled == pc = "idle" /\ op'.name = "switch_to"

\* C31: a switch_to call whose url is the URL of the working copy, with or
\* without a revision, ends at once: ensure_clean_workspace is not entered,
\* no revert, status or switch command is run and the working copy stays as
\* it is; and no step of any switch_to call changes before_update_rev or
\* after_update_rev.
C31_SwitchToSameUrlDoesNothing ==
    [][/\ (SwitchCalled /\ op'.url = wcUrl) =>
              /\ pc' = "idle" /\ stack' = <<>> /\ cleaned' = <<>>
              /\ \A i \in DOMAIN events' :
                    /\ events'[i].ev = "exec"
                    /\ events'[i].argv[2] \notin {"switch", "revert", "status"}
              /\ wcUrl' = wcUrl /\ wcRev' = wcRev
       /\ op'.name = "switch_to" =>
              /\ before_update_rev' = before_update_rev
              /\ after_update_rev' = after_update_rev]_vars

\* After an update_to that recorded both revisions, a switch_to to the
\* current URL with a revision has returned without cleaning or switching.
C31_Witness ==
    /\ op.name = "switch_to" /\ op.url = wcUrl /\ op.revision = "6"
    /\ pc = "idle" /\ ret = Returned
    /\ cleaned = <<>> /\ MoveExecs = {}
    /\ ~Unset(before_update_rev) /\ ~Unset(after_update_rev)

(***************************************************************************)
(* Claims about the outcome of _svn (SvnSpec)                              *)
(***************************************************************************)
\* The call went through lock recovery.
Recovered ==
    call.fn = "_svn" /\ call.first.code # 0 /\ HasLockSignature(call.first.err)

\* C32: an _svn call whose first run failed with a lock signature has run
\* the command, one cleanup and the command again, whatever the cleanup
\* answered, and its outcome is that of the second run: it returns the exit
\* code, stdout and stderr of the second run, and it raises if and only if
\* it is strict and the second run failed, the error carrying the second
\* run's output.
C32_OutcomeIsTheRetrys ==
    Recovered =>
        /\ call.execs = << Exec(<<"svn">> \o call.args, Root),
                           Exec(<<"svn", "cleanup">>, Root),
                           Exec(<<"svn">> \o call.args, Root) >>
        /\ <<call.code, call.out, call.err>>
              = <<call.second.code, call.second.out, call.second.err>>
        /\ call.raised <=> (call.check /\ call.second.code # 0)
        /\ call.raised => (call.error.out = call.second.out /\ call.error.err = call.second.err)
        /\ ~call.raised => call.error = NoError

\* A strict call whose first run printed something and failed locked, whose
\* cleanup failed, and whose second run succeeded printing nothing.
C32_Witness ==
    /\ Recovered /\ call.check
    /\ call.first.out = "o" /\ call.clean.code # 0
    /\ call.second = Ok("")
    /\ ~call.raised /\ call.code = 0 /\ call.out = ""

\* C33: an _svn call whose first run exits 0 runs nothing else, whatever
\* its stderr holds, and returns what that run answered; a cleanup and a
\* second run happen only after a first run that both failed and printed a
\* lock signature.
C33_NoRecoveryAfterSuccess ==
    call.fn = "_svn" =>
        /\ call.first.code = 0 =>
              /\ call.execs = << Exec(<<"svn">> \o call.args, Root) >>
              /\ <<call.code, call.out, call.err>>
                    = <<call.first.code, call.first.out, call.first.err>>
              /\ ~call.raised
        /\ Len(call.execs) > 1 => (call.first.code # 0 /\ HasLockSignature(call.first.err))

\* A first run that exits 0 with a lock signature in its stderr.
C33_Witness ==
    /\ call.fn = "_svn" /\ call.first.code = 0
    /\ Contains("is locked", call.first.err)
    /\ Len(call.execs) = 1 /\ call.code = 0

====
